---- MODULE Spec2Model ----
(***************************************************************************)
(* Look-through engine of parse_xml_anbima: acyclicity validator, level    *)
(* expander (build_tree_horizontal), sub-portfolio splitter                *)
(* (explode_horizontal_tree_submassa), stake accumulator                   *)
(* (accumulate_columns_by_level) and governance-key resolver               *)
(* (assign_governance_struct_keys).                                        *)
(*                                                                         *)
(* Tables are data frames.  A table the code keeps sorted is a set of rows *)
(* plus the sort key (assign_returns sorts funds and portfolios in place   *)
(* before the tree is built); a derived table is a sequence of rows in     *)
(* pandas' row order.  NaN / None is Null.                                   *)
(***************************************************************************)
EXTENDS Integers, Sequences, FiniteSets, TLC

\* ------------------------------------------------------------------ bounds
NumFunds == 2
MaxFundRows == 3
MaxPortRows == 2
RecursionLimit == 5
MaxMapRows == 3
\* Rules handed to harmonize_values.
MaxRules == 2
\* Processes of the worker pool, and source files handed to it.
NumWorkers == 2
NumFiles == 2

\* Menu options entered in one session of the returns-disclosure script.
MaxOptions == 4

\* ------------------------------------------------------------ value domains
Null == 0

\* ids as they occur in a cnpjfundo column: NaN, the empty string, a fund id
Empty == -1
Funds == 1..NumFunds
Dates == {1, 2}
\* Instrument ids (isin).  Instrument f is the share of fund f; 8 is a position
\* whose fund reference is the empty string; 9 is a terminal asset.
EmptyRefIsins == {8}
Assets == {9}
Isins == Funds \cup Assets

\* cnpjfundo of a position: the fund whose share it is, NaN for an asset.
CnpjfundoOfIsin(i) ==
    IF i \in Assets THEN Null ELSE IF i \in EmptyRefIsins THEN Empty ELSE i

\* Real-valued columns are fractions <<numerator, denominator>>; NaN has
\* denominator 0.
NaN == <<0, 0>>
One == <<1, 1>>
IsNaN(x) == x[2] = 0
Num(v) == <<v, 1>>
FillNa(x, v) == IF IsNaN(x) THEN v ELSE x
Mul(x, y) == IF IsNaN(x) \/ IsNaN(y) THEN NaN ELSE <<x[1] * y[1], x[2] * y[2]>>
Div(x, y) ==
    IF IsNaN(x) \/ IsNaN(y) \/ y[1] = 0 THEN NaN ELSE <<x[1] * y[2], x[2] * y[1]>>
Add(x, y) ==
    IF IsNaN(x) \/ IsNaN(y) THEN NaN ELSE <<x[1] * y[2] + y[1] * x[2], x[2] * y[2]>>
\* Two real values are the same number.
SameValue(x, y) ==
    IF IsNaN(x) \/ IsNaN(y) THEN IsNaN(x) /\ IsNaN(y)
    ELSE x[1] * y[2] = y[1] * x[2]
IsZero(x) == ~IsNaN(x) /\ x[1] = 0

\* ----------------------------------------------------------------- helpers
RECURSIVE KSubsets(_, _)
\* All subsets of S with at most k elements.
KSubsets(S, k) ==
    IF k = 0 THEN {{}}
    ELSE LET prev == KSubsets(S, k - 1)
         IN  prev \cup {T \cup {x} : T \in prev, x \in S}

RECURSIVE LexLess(_, _)
LexLess(a, b) ==
    IF a = <<>> \/ b = <<>> THEN FALSE
    ELSE IF Head(a) # Head(b) THEN Head(a) < Head(b)
    ELSE LexLess(Tail(a), Tail(b))

RECURSIVE SortedBy(_, _)
\* DataFrame.sort_values: the rows of S in ascending order of key[row].
SortedBy(S, key) ==
    IF S = {} THEN <<>>
    ELSE LET m == CHOOSE x \in S : \A y \in S : ~LexLess(key[y], key[x])
         IN  <<m>> \o SortedBy(S \ {m}, key)

RECURSIVE FlatMap(_, _)
\* Concatenation of f[s[1]], f[s[2]], ... (f maps a row to a sequence of rows).
FlatMap(s, f) ==
    IF s = <<>> THEN <<>> ELSE f[Head(s)] \o FlatMap(Tail(s), f)

Range(s) == {s[i] : i \in DOMAIN s}

\* The sequences over S of length at most n.
SeqsUpTo(S, n) == UNION {[1..k -> S] : k \in 0..n}

Max(S) == CHOOSE x \in S : \A y \in S : y <= x

\* A positional call raises TypeError unless it binds every parameter once.
CallRaises(params, args) == Len(args) # Len(params)

\* ------------------------------------------------------------ input tables
\* A position row of the fund table (columns cnpj + cols_common of build_tree).
FundRow(c, d, i, v, e) ==
    [cnpj |-> c, dtposicao |-> d, isin |-> i, cnpjfundo |-> CnpjfundoOfIsin(i),
     valor_calc |-> v, equity_stake |-> e]

\* A position row of the portfolio table (cols_port + cols_common).
PortRow(cc, p, d, i, v, e) ==
    [codcart |-> cc, cnpb |-> p, dtposicao |-> d, isin |-> i,
     cnpjfundo |-> CnpjfundoOfIsin(i), valor_calc |-> v, equity_stake |-> e]

\* assign_returns: funds sorted by cnpj, isin, dtposicao.
FundsSorted(fs) ==
    SortedBy(fs, [r \in fs |-> <<r.cnpj, r.isin, r.dtposicao>>])

\* assign_returns: portfolios sorted by (cnpjcpf,) codcart, cnpb, isin, dtposicao.
PortfoliosSorted(ps) ==
    SortedBy(ps, [r \in ps |-> <<r.codcart, r.cnpb, r.isin, r.dtposicao>>])

\* ------------------------------------------------------ acyclicity validator
\* funds[['cnpjfundo', 'cnpj']].dropna().drop_duplicates(): dates are dropped.
Edges(fs) == {<<r.cnpjfundo, r.cnpj>> : r \in {x \in fs : x.cnpjfundo # Null}}

Nodes(E) == {e[1] : e \in E} \cup {e[2] : e \in E}

RECURSIVE ReachFrom(_, _)
\* S and every node reachable from it along the edges of E.
ReachFrom(S, E) ==
    LET next == S \cup {e[2] : e \in {x \in E : x[1] \in S}}
    IN  IF next = S THEN S ELSE ReachFrom(next, E)

Successors(n, E) == {e[2] : e \in {x \in E : x[1] = n}}

\* The graph has a directed cycle: some node reaches itself.
HasCycle(E) ==
    \E n \in Nodes(E) :
        Successors(n, E) # {} /\ n \in ReachFrom(Successors(n, E), E)

\* nx.algorithms.dag.topological_sort(graph) is a generator function: the call
\* builds a generator and runs none of its body.  NetworkXUnfeasible is raised
\* only when the generator is iterated, and the validator discards it.
GeneratorIterated == FALSE

TopologicalSortRaises(E) == GeneratorIterated /\ HasCycle(E)

\* validate_fund_graph_is_acyclic raises ValueError.
ValidatorRaises(fs) == TopologicalSortRaises(Edges(fs))

\* ------------------------------------------------------------ level expander
\* The level-k column group of a tree row (suffix _nivel_k; level 0 has none).
LevelOf(r) ==
    [cnpjfundo |-> r.cnpjfundo, isin |-> r.isin,
     valor_calc |-> r.valor_calc, equity_stake |-> r.equity_stake]

\* The column group of a row the left join did not match: all NaN.
NullLevel ==
    [cnpjfundo |-> Null, isin |-> Null, valor_calc |-> NaN, equity_stake |-> NaN]

\* build_tree: the frontier handed to build_tree_horizontal, nivel = 0.
build_tree(ps) ==
    LET seq == PortfoliosSorted(ps)
    IN  [k \in DOMAIN seq |->
            [codcart |-> seq[k].codcart, cnpb |-> seq[k].cnpb,
             dtposicao |-> seq[k].dtposicao, nivel |-> 0,
             lv |-> <<LevelOf(seq[k])>>]]

\* Mutant of LeftCol: the join column stays cnpjfundo at every depth.
LeftCol_TopLevelOnly(r, d) == r.lv[1].cnpjfundo

\* left_col of recursion depth d: cnpjfundo (d = 0) or cnpjfundo_nivel_d.
LeftCol(r, d) == r.lv[d + 1].cnpjfundo

\* portfolios[left_col].notna().sum() == 0
NoFundReference(rows, d) == \A k \in DOMAIN rows : LeftCol(rows[k], d) = Null

\* Mutant of MergeMatches: the join is on the fund id alone.
MergeMatches_IgnoreDate(r, fseq, d) ==
    SelectSeq(fseq, LAMBDA f : f.cnpj = LeftCol(r, d))

\* The fund-table rows the merge pairs with row r: same fund id and same date.
MergeMatches(r, fseq, d) ==
    SelectSeq(fseq, LAMBDA f : f.cnpj = LeftCol(r, d) /\ f.dtposicao = r.dtposicao)

\* Mutant of NivelAfterMerge: nivel is set on every row, not only on the mask.
NivelAfterMerge_NoMask(r, matched, d) == d + 1

\* nivel after the merge: deep + 1 on the rows of the mask (_merge == 'both').
NivelAfterMerge(r, matched, d) == IF matched THEN d + 1 ELSE r.nivel

\* One recursion of build_tree_horizontal: left join on (left_col, dtposicao),
\* new columns suffixed _nivel_{d+1}, nivel set where the join matched.
MergeLevel(rows, fs, d) ==
    LET fseq == FundsSorted(fs)
        expand == [r \in Range(rows) |->
            LET m == MergeMatches(r, fseq, d)
            IN  IF m = <<>>
                THEN <<[r EXCEPT !.lv = Append(@, NullLevel),
                                 !.nivel = NivelAfterMerge(r, FALSE, d)]>>
                ELSE [j \in DOMAIN m |->
                        [r EXCEPT !.lv = Append(@, LevelOf(m[j])),
                                  !.nivel = NivelAfterMerge(r, TRUE, d)]]]
    IN  FlatMap(rows, expand)

RECURSIVE build_tree_horizontal(_, _, _)
\* build_tree_horizontal(portfolios, funds, deep), run to its return.
build_tree_horizontal(rows, fs, d) ==
    IF NoFundReference(rows, d) THEN rows
    ELSE build_tree_horizontal(MergeLevel(rows, fs, d), fs, d + 1)

\* tree['nivel'].max(); None on an empty frame.
MaxNivel(rows) == Max({rows[k].nivel : k \in DOMAIN rows})

\* ------------------------------------------------------ sub-portfolio splitter
\* dcadsubmassa: the sub-group (COD_SUBMASSA, SUBMASSA) and plan of a shared
\* portfolio.
SubmassaCodcarts == {31, 32}
CodSubmassaOf(cc) == IF cc = 31 THEN "2" ELSE "3"
SubmassaOf(cc) == IF cc = 31 THEN "S2" ELSE "S3"

\* extract_portfolio_submassa: a position of a shared portfolio with the
\* columns of dcadsubmassa merged in.
SubmassaRow(cc, d, i, v) ==
    [dtposicao |-> d, CNPB |-> 21, isin |-> i, CODCART |-> cc,
     COD_SUBMASSA |-> CodSubmassaOf(cc), SUBMASSA |-> SubmassaOf(cc),
     valor_calc |-> v]

\* port_submassa keeps the order of the sorted portfolio table.
SubmassaSorted(sm) ==
    SortedBy(sm, [r \in sm |-> <<r.CODCART, r.CNPB, r.isin, r.dtposicao>>])

RECURSIVE SumValues(_)
SumValues(s) == IF s = <<>> THEN Num(0) ELSE Add(Head(s), SumValues(Tail(s)))

\* compute_composition_portfolio_submassa: pct_submassa_isin_cnpb of a row, its
\* valor_calc over the total of its (dtposicao, CNPB, isin) group.
PctSubmassa(sm, r) ==
    LET grp == SelectSeq(SubmassaSorted(sm),
                   LAMBDA x : /\ x.dtposicao = r.dtposicao
                              /\ x.CNPB = r.CNPB
                              /\ x.isin = r.isin)
        total == SumValues([k \in DOMAIN grp |-> grp[k].valor_calc])
    IN  Div(r.valor_calc, total)

\* build_horizontal_tree: mask of the rows handed to the splitter.
SubmassaMask(r, sm) ==
    /\ r.cnpb \in {x.CNPB : x \in sm}
    /\ r.dtposicao \in {x.dtposicao : x \in sm}

\* The sub-group columns explode_horizontal_tree_submassa adds to a tree row.
WithSubmassaDefaults(r) ==
    [codcart |-> r.codcart, cnpb |-> r.cnpb, dtposicao |-> r.dtposicao,
     nivel |-> r.nivel, lv |-> r.lv,
     COD_SUBMASSA |-> "None", SUBMASSA |-> "None",
     pct_submassa_isin_cnpb |-> One, CODCART |-> Null, joined |-> <<>>]

\* The mapping rows the merge of level i pairs with row r: same date, plan and
\* level-i instrument (mapping rows without isin are masked out).
SubmassaMatches(r, smseq, i) ==
    SelectSeq(smseq, LAMBDA x : /\ x.dtposicao = r.dtposicao
                                /\ x.CNPB = r.cnpb
                                /\ x.isin # Null
                                /\ x.isin = r.lv[i + 1].isin)

\* Level i of the loop of explode_horizontal_tree_submassa: left merge on
\* (dtposicao, cnpb, isin of level i); where it matched, the four sub-group
\* columns are overwritten with the merged ones.  joined keeps the suffixed
\* CODCART column of each level.
ExplodeLevel(rows, sm, i) ==
    LET smseq == SubmassaSorted(sm)
        expand == [r \in Range(rows) |->
            LET m == SubmassaMatches(r, smseq, i)
            IN  IF m = <<>>
                THEN <<[r EXCEPT !.joined = Append(@, Null)]>>
                ELSE [j \in DOMAIN m |->
                        [r EXCEPT !.COD_SUBMASSA = m[j].COD_SUBMASSA,
                                  !.SUBMASSA = m[j].SUBMASSA,
                                  !.pct_submassa_isin_cnpb = PctSubmassa(sm, m[j]),
                                  !.CODCART = m[j].CODCART,
                                  !.joined = Append(@, m[j].CODCART)]]]
    IN  FlatMap(rows, expand)

RECURSIVE ExplodeLevels(_, _, _, _)
\* for i in range(0, max_depth + 1)
ExplodeLevels(rows, sm, i, maxDepth) ==
    IF i > maxDepth THEN rows
    ELSE ExplodeLevels(ExplodeLevel(rows, sm, i), sm, i + 1, maxDepth)

\* Lines 610-613: NaN factor becomes 1.0, rows without SUBMASSA get '1'/'BSPS'.
FillBsps(r) ==
    LET q == [r EXCEPT !.pct_submassa_isin_cnpb = FillNa(@, One)]
    IN  IF q.SUBMASSA = "None"
        THEN [q EXCEPT !.COD_SUBMASSA = "1", !.SUBMASSA = "BSPS"]
        ELSE q

\* explode_horizontal_tree_submassa(tree_horzt_sub, port_submassa)
explode_horizontal_tree_submassa(rows, sm) ==
    LET init == [k \in DOMAIN rows |-> WithSubmassaDefaults(rows[k])]
    IN  IF rows = <<>> THEN init
        ELSE LET out == ExplodeLevels(init, sm, 0, MaxNivel(rows))
             IN  [k \in DOMAIN out |-> FillBsps(out[k])]

\* ------------------------------------------------------- value accumulator
\* Mutant of AccumulateCols: range(1, deep) instead of range(1, deep + 1).
AccumulateCols_SkipDeepest(r, d) ==
    [i \in 1..(d - 1) |-> r.lv[i + 1].equity_stake] \o <<r.lv[1].equity_stake>>

\* accumulate_cols: equity_stake_nivel_1 .. equity_stake_nivel_deep, then
\* equity_stake.
AccumulateCols(r, d) ==
    [i \in 1..d |-> r.lv[i + 1].equity_stake] \o <<r.lv[1].equity_stake>>

RECURSIVE Prod(_)
\* DataFrame.prod(axis=1)
Prod(s) == IF s = <<>> THEN One ELSE Mul(Head(s), Prod(Tail(s)))

\* accumulate_columns_by_level: the columns with NaN filled by 1, multiplied.
accumulate_columns_by_level(r, d) ==
    LET cols == AccumulateCols(r, d)
    IN  Prod([k \in DOMAIN cols |-> FillNa(cols[k], One)])

\* Mutant of compute_proportional_value: the proration factor is left out.
compute_proportional_value_NoFactor(r) ==
    Mul(r.lv[r.nivel + 1].valor_calc, r.equity_stake_leaf)

\* compute_proportional_value: for the rows of nivel i, valor_calc of level i
\* times the accumulated stake times the proration factor (NaN -> 1.0).
compute_proportional_value(r) ==
    Mul(Mul(r.lv[r.nivel + 1].valor_calc, r.equity_stake_leaf),
        FillNa(r.pct_submassa_isin_cnpb, One))

\* The columns of the tree frame when enrich_values runs: those build_tree
\* selects and adds, those build_tree_horizontal and the splitter add, and the
\* two computed before the group-by (level columns carry a suffix besides).
TreeColumns ==
    {"cnpjcpf", "codcart", "cnpb", "dtposicao", "cnpjfundo", "nome",
     "equity_stake", "valor_calc", "isin", "NEW_TIPO", "fNUMERACA.DESCRICAO",
     "fEMISSOR.NOME_EMISSOR", "NEW_NOME_ATIVO", "NEW_GESTOR",
     "NEW_GESTOR_WORD_CLOUD", "rentab", "nivel", "cnpj", "PARENT_FUNDO",
     "PARENT_FUNDO_GESTOR", "CNPB", "COD_SUBMASSA", "SUBMASSA",
     "pct_submassa_isin_cnpb", "CODCART", "equity_stake_leaf",
     "valor_calc_proporcional"}

\* tree_horzt.groupby(['cnpb', 'CLCLI_CD', 'dtposicao'])
TotalInvestGroupCols == <<"cnpb", "CLCLI_CD", "dtposicao">>

\* DataFrame.groupby raises KeyError for a key that is not a column.
GroupByRaises(cols) == \E k \in DOMAIN cols : cols[k] \notin TreeColumns

\* The group of a row under the group-by columns.
GroupKey(r, cols) == [k \in DOMAIN cols |-> r[cols[k]]]

\* enrich_values lines 122-129: total_invest is the group sum of
\* valor_calc_proporcional, composicao the row's share of it.
WithComposition(rows, cols) ==
    [k \in DOMAIN rows |->
        LET grp == SelectSeq(rows, LAMBDA x : GroupKey(x, cols) = GroupKey(rows[k], cols))
            total == SumValues([j \in DOMAIN grp |-> grp[j].valor_calc_proporcional])
        IN  rows[k] @@ [total_invest |-> total,
                        composicao |-> Div(rows[k].valor_calc_proporcional, total)]]

\* ------------------------------------------------------- float arithmetic
\* The returns are float64 columns: every arithmetic operation delivers the
\* exact result rounded to the nearest representable number.  The model keeps
\* the rounding and shortens the significand to Digits decimal digits.
Digits == 3

RECURSIVE Pow10(_)
Pow10(k) == IF k <= 0 THEN 1 ELSE 10 * Pow10(k - 1)

Abs(n) == IF n < 0 THEN -n ELSE n

RECURSIVE Gcd(_, _)
Gcd(a, b) == IF b = 0 THEN a ELSE Gcd(b, a % b)

\* The fraction x in lowest terms with a positive denominator.
Reduced(x) ==
    IF IsNaN(x) THEN NaN
    ELSE LET g == Gcd(Abs(x[1]), Abs(x[2]))
             sgn == IF x[2] < 0 THEN -1 ELSE 1
         IN  <<sgn * (x[1] \div g), sgn * (x[2] \div g)>>

\* The decimal exponents of the numbers the model works with.
Exponents == -4..1

\* The nearest number with a significand of Digits digits (ties away from
\* zero).
Round(x) ==
    IF IsNaN(x) THEN NaN
    ELSE IF x[1] = 0 THEN Num(0)
    ELSE LET y == Reduced(x)
             n == Abs(y[1])
             sn(e) == n * Pow10(-e)
             sd(e) == y[2] * Pow10(e)
             e == CHOOSE k \in Exponents :
                      /\ Pow10(Digits - 1) * sd(k) <= sn(k)
                      /\ sn(k) < Pow10(Digits) * sd(k)
             mant == (2 * sn(e) + sd(e)) \div (2 * sd(e))
             sgn == IF y[1] < 0 THEN -1 ELSE 1
         IN  Reduced(<<sgn * mant * Pow10(e), Pow10(-e)>>)

Neg(x) == IF IsNaN(x) THEN NaN ELSE <<-x[1], x[2]>>

FloatAdd(x, y) == Round(Add(x, y))
FloatSub(x, y) == Round(Add(x, Neg(y)))
FloatMul(x, y) == Round(Mul(x, y))
FloatDiv(x, y) == Round(Div(x, y))

RECURSIVE FloatSum(_)
\* GroupBy.sum(): NaN values are skipped, the rest are added in frame order.
FloatSum(vals) ==
    IF vals = <<>> THEN Num(0)
    ELSE LET front == FloatSum(SubSeq(vals, 1, Len(vals) - 1))
             last == vals[Len(vals)]
         IN  IF IsNaN(last) THEN front ELSE FloatAdd(front, last)

\* ------------------------------------------------------------- adjuster
\* dCadPlanoSAC: the MEC/SAC clients of plan 21.
DcadPlanoSac == {[CODCLI_SAC |-> 41, CNPB |-> 21], [CODCLI_SAC |-> 42, CNPB |-> 21]}

\* mec_sac.merge(dcadplanosac, how='left', left_on='CODCLI',
\* right_on='CODCLI_SAC'), in the order of the MEC/SAC rows.
MecSacDcadplanosac(mec) ==
    LET seq == SortedBy(mec, [r \in mec |-> <<r.DT, r.CODCLI>>])
        plans == [r \in Range(seq) |->
                    LET m == {x \in DcadPlanoSac : x.CODCLI_SAC = r.CODCLI}
                    IN  IF m = {} THEN <<r @@ [CNPB |-> Null]>>
                        ELSE <<r @@ [CNPB |-> (CHOOSE x \in m : TRUE).CNPB]>>]
    IN  FlatMap(seq, plans)

\* Lines 57-72: RENTAB_DIA weighted by the client's share of the net worth of
\* its (CNPB, DT) group, summed per group.
MecSacReturn(mec, plan, dt) ==
    LET grp == SelectSeq(MecSacDcadplanosac(mec),
                         LAMBDA r : r.CNPB = plan /\ r.DT = dt)
        total == FloatSum([k \in DOMAIN grp |-> grp[k].VL_PATRLIQTOT1])
    IN  IF grp = <<>> THEN NaN
        ELSE FloatSum([k \in DOMAIN grp |->
                 FloatMul(FloatDiv(grp[k].VL_PATRLIQTOT1, total), grp[k].RENTAB_DIA)])

\* Lines 74-78: contribution_rentab_ponderada summed per (cnpb, dtposicao).
TreeReturn(rows, plan, dt) ==
    LET grp == SelectSeq(rows, LAMBDA r : r.cnpb = plan /\ r.dtposicao = dt)
    IN  FloatSum([k \in DOMAIN grp |-> grp[k].contribution_rentab_ponderada])

\* Mutant of AdjustFactor: the quotient is taken the other way round.
AdjustFactor_Inverted(auth, treeRet) == FloatDiv(treeRet, auth)

\* Lines 92-95: contribution_ajuste_rentab_fator.
AdjustFactor(auth, treeRet) == FloatDiv(auth, treeRet)

\* Lines 87-90: contribution_ajuste_rentab.
AdjustDelta(auth, treeRet) == FloatSub(auth, treeRet)

\* compute_plan_returns_adjustment(tree_hrztl, mec_sac, dcadplanosac): one row
\* per (cnpb, dtposicao) group of the tree, left-merged with the MEC/SAC
\* returns of the plan (DT is rewritten as yyyymmdd, the form of dtposicao).
compute_plan_returns_adjustment(rows, mec) ==
    LET keys == {<<r.cnpb, r.dtposicao>> : r \in Range(rows)}
        groups == SortedBy(keys, [k \in keys |-> k])
    IN  [g \in DOMAIN groups |->
            LET treeRet == TreeReturn(rows, groups[g][1], groups[g][2])
                auth == MecSacReturn(mec, groups[g][1], groups[g][2])
            IN  [cnpb |-> groups[g][1], dtposicao |-> groups[g][2],
                 contribution_rentab_ponderada |-> treeRet,
                 RENTAB_DIA_PONDERADA_MEC_SAC |-> auth,
                 contribution_ajuste_rentab |-> AdjustDelta(auth, treeRet),
                 contribution_ajuste_rentab_fator |-> AdjustFactor(auth, treeRet)]]

\* ---------------------------------------------------- governance-key resolver
\* The key '#OUTROS'.
Outros == -2

\* tree['KEY_ESTRUTURA_GERENCIAL'] = None; tree['contribution_valor_calc'] = 0.0;
\* tree['contribution_match'] = None
WithGovernanceDefaults(r) ==
    r @@ [KEY_ESTRUTURA_GERENCIAL |-> Null, contribution_match |-> Null,
          contribution_valor_calc |-> Num(0)]

\* Mutant of LevelMask: a level matches also when the row is already marked.
LevelMask_NoGuard(r, col, gov) == col \in gov

\* mask_key_missing & mask_in_estrutura & mask_not_marked
LevelMask(r, col, gov) ==
    /\ r.KEY_ESTRUTURA_GERENCIAL = Null
    /\ col \in gov
    /\ r.contribution_match = Null

\* ~tree.duplicated(subset=group_cols + [cnpj_col]): no earlier row of the frame
\* has the same codcart, dtposicao, cnpb and level-i fund id.
FirstInGroup(rows, k, i) ==
    \A j \in 1..(k - 1) :
        ~ /\ rows[j].codcart = rows[k].codcart
          /\ rows[j].dtposicao = rows[k].dtposicao
          /\ rows[j].cnpb = rows[k].cnpb
          /\ rows[j].lv[i + 1].cnpjfundo = rows[k].lv[i + 1].cnpjfundo

\* _fill_contribution_cols: contribution_valor_calc = tree[vl_calc_col].
FillContribution(r, v) == [r EXCEPT !.contribution_valor_calc = v]

\* Level i of the loop of assign_estrutura_gerencial_key.
GovernanceLevel(rows, gov, i) ==
    [k \in DOMAIN rows |->
        LET r == rows[k]
            col == r.lv[i + 1].cnpjfundo
        IN  IF ~LevelMask(r, col, gov) THEN r
            ELSE IF ~FirstInGroup(rows, k, i)
                 THEN [r EXCEPT !.contribution_match = col]
                 ELSE FillContribution(
                          [r EXCEPT !.contribution_match = col,
                                    !.KEY_ESTRUTURA_GERENCIAL = col],
                          r.lv[i + 1].valor_calc)]

RECURSIVE GovernanceLevels(_, _, _, _)
\* for i in range(0, max_deep + 1)
GovernanceLevels(rows, gov, i, maxDeep) ==
    IF i > maxDeep THEN rows
    ELSE GovernanceLevels(GovernanceLevel(rows, gov, i), gov, i + 1, maxDeep)

\* Mutant of FallbackMask: the fallback does not look at cnpjfundo.
FallbackMask_AnyRow(r) == r.contribution_match = Null

\* fallback_mask: never marked, cnpjfundo present and not ''.
FallbackMask(r) ==
    /\ r.contribution_match = Null
    /\ r.lv[1].cnpjfundo # Null
    /\ r.lv[1].cnpjfundo # Empty

\* assign_estrutura_gerencial_key(tree, key_vehicle_governance_struct, max_deep)
assign_estrutura_gerencial_key(rows, gov, maxDeep) ==
    LET init == [k \in DOMAIN rows |-> WithGovernanceDefaults(rows[k])]
        scanned == GovernanceLevels(init, gov, 0, maxDeep)
    IN  [k \in DOMAIN scanned |->
            IF FallbackMask(scanned[k])
            THEN FillContribution(
                     [scanned[k] EXCEPT !.contribution_match = Outros,
                                        !.KEY_ESTRUTURA_GERENCIAL = Outros],
                     scanned[k].valor_calc_proporcional)
            ELSE scanned[k]]

\* missing_struct: contribution_match is NaN or ''.
MissingStruct(r) == r.contribution_match = Null \/ r.contribution_match = Empty

\* fill_missing_governance_struct(tree_horzt, key_vehicle_governance_struct)
fill_missing_governance_struct(rows, gov) ==
    [k \in DOMAIN rows |->
        LET r == rows[k]
            key == IF r.codcart \in gov THEN r.codcart ELSE Outros
        IN  IF MissingStruct(r)
            THEN FillContribution(
                     [r EXCEPT !.contribution_match = key,
                               !.KEY_ESTRUTURA_GERENCIAL = key],
                     r.valor_calc_proporcional)
            ELSE r]

\* ------------------------------------------------------------------- state
VARIABLES
    funds,          \* fund table (set of position rows, kept sorted)
    portfolios,     \* portfolio table (set of position rows, kept sorted)
    governance,     \* KEY_VEICULO values of the governance structure
    port_submassa,  \* sub-group mapping rows
    mec_sac,        \* MEC/SAC rows: daily return and net worth per client
    tree,           \* the horizontal tree (sequence of rows)
    tree_sub,       \* the rows of the tree handed to the splitter
    deep,           \* recursion depth of build_tree_horizontal
    pc,             \* stage of the run
    error,          \* exception that ended the run, or "none"
    plan_returns_adjust,  \* result of compute_plan_returns_adjustment
    outputs,        \* what the finished runs on these inputs produced
    pool,           \* the worker pool of parse_files and what its processes hold
    harm,           \* a call of harmonize_values: its table, rules and position
    check,          \* a reconciliation check: its tables and the reports written
    run,            \* a run of the pipeline's stages: position, log and files written
    session,        \* a session of the returns-disclosure menu and the POSTs it made
    selection       \* select_latest_xml_by_cnpj_and_date: the files found and the two lists returned

vars == <<funds, portfolios, governance, port_submassa, mec_sac, tree, tree_sub, deep,
          pc, error, plan_returns_adjust, outputs, pool, harm, check, run, session, selection>>

\* No reconciliation check has been called.
NoCheck == [reports |-> {}]

\* harmonize_values has not been called.
NoCall == [k |-> 0]

\* No pool has been started.
NoPool == [start |-> "none"]

\* run_pipeline has not been started stage by stage.
NoRun == [at |-> 0]

\* The returns-disclosure menu has not been started.
NoSession == [options |-> 0]

\* No file selection has been made.
NoSelection == [done |-> FALSE]

inputs == <<funds, portfolios, governance, port_submassa, mec_sac>>

\* ----------------------------------------------------- run_pipeline (Spec)
FundRowDomain == {FundRow(c, d, i, Num(100), NaN) : c \in Funds, d \in Dates, i \in Isins}

PortRowDomain == {PortRow(11, 21, 1, i, Num(100), NaN) : i \in Isins}

Init ==
    /\ funds \in KSubsets(FundRowDomain, MaxFundRows) \ {{}}
    /\ portfolios \in KSubsets(PortRowDomain, MaxPortRows)
    /\ governance = {}
    /\ port_submassa = {}
    /\ tree = <<>>
    /\ tree_sub = <<>>
    /\ deep = 0
    /\ pc = "validate"
    /\ error = "none"
    /\ mec_sac = {}
    /\ plan_returns_adjust = <<>>
    /\ outputs = <<>>
    /\ pool = NoPool
    /\ harm = NoCall
    /\ check = NoCheck
    /\ run = NoRun
    /\ session = NoSession
    /\ selection = NoSelection

\* run_pipeline: validate_fund_graph_is_acyclic(funds), then on to build_tree.
Validate ==
    /\ pc = "validate"
    /\ IF ValidatorRaises(funds)
       THEN /\ pc' = "failed"
            /\ error' = "ValueError"
            /\ tree' = tree
       ELSE /\ pc' = "build_tree"
            /\ error' = error
            /\ tree' = build_tree(portfolios)
    /\ UNCHANGED <<inputs, selection, session, run, check, harm, outputs, pool, plan_returns_adjust, tree_sub, deep>>

\* build_tree_horizontal: no fund reference left at this depth, return.
ExpandReturn ==
    /\ pc = "build_tree"
    /\ NoFundReference(tree, deep)
    /\ pc' = "tree_built"
    /\ UNCHANGED <<inputs, selection, session, run, check, harm, outputs, pool, plan_returns_adjust, tree, tree_sub, deep, error>>

\* build_tree_horizontal: merge one more level and recurse.
ExpandMerge ==
    /\ pc = "build_tree"
    /\ ~NoFundReference(tree, deep)
    /\ deep < RecursionLimit
    /\ tree' = MergeLevel(tree, funds, deep)
    /\ deep' = deep + 1
    /\ UNCHANGED <<inputs, selection, session, run, check, harm, outputs, pool, plan_returns_adjust, tree_sub, pc, error>>

\* build_tree_horizontal: the recursion exceeds the interpreter's limit.
ExpandRecursionError ==
    /\ pc = "build_tree"
    /\ ~NoFundReference(tree, deep)
    /\ deep = RecursionLimit
    /\ pc' = "failed"
    /\ error' = "RecursionError"
    /\ UNCHANGED <<inputs, selection, session, run, check, harm, outputs, pool, plan_returns_adjust, tree, tree_sub, deep>>

Next ==
    \/ Validate
    \/ ExpandReturn
    \/ ExpandMerge
    \/ ExpandRecursionError

Spec == Init /\ [][Next]_vars

\* ------------------------------------------- sub-portfolio splitter (SpecSplit)
\* The instruments a fund c of F may hold in the acyclic tables: assets and
\* shares of higher-numbered funds.
Holdable(c, F) == {j \in F : j > c} \cup Assets

SplitFundDomain ==
    UNION {{FundRow(c, 1, i, Num(100), NaN) : i \in Holdable(c, Funds)} : c \in Funds}

SubmassaDomain ==
    {SubmassaRow(31, 1, i, Num(60)) : i \in Isins}
        \cup {SubmassaRow(32, 1, i, Num(40)) : i \in Isins}

InitSplit ==
    /\ funds \in KSubsets(SplitFundDomain, MaxFundRows - 1)
    /\ portfolios \in KSubsets(PortRowDomain, MaxPortRows - 1)
    /\ governance = {}
    /\ port_submassa \in KSubsets(SubmassaDomain, MaxMapRows)
    /\ tree = <<>>
    /\ tree_sub = <<>>
    /\ deep = 0
    /\ pc = "build_horizontal_tree"
    /\ error = "none"
    /\ mec_sac = {}
    /\ plan_returns_adjust = <<>>
    /\ outputs = <<>>
    /\ pool = NoPool
    /\ harm = NoCall
    /\ check = NoCheck
    /\ run = NoRun
    /\ session = NoSession
    /\ selection = NoSelection

\* Mutant of BuildHorizontalTree: the rows are added to a table that outlives
\* the call.
BuildHorizontalTree_IntoPrevious ==
    /\ pc = "build_horizontal_tree"
    /\ LET full == build_tree_horizontal(build_tree(portfolios), funds, 0)
       IN  /\ tree' = tree \o SelectSeq(full, LAMBDA r : ~SubmassaMask(r, port_submassa))
           /\ tree_sub' = SelectSeq(full, LAMBDA r : SubmassaMask(r, port_submassa))
    /\ pc' = "explode"
    /\ UNCHANGED <<inputs, selection, session, run, check, harm, outputs, pool, plan_returns_adjust, deep, error>>

\* Mutant of BuildHorizontalTree: enrich_horizontal_tree follows at once.
BuildHorizontalTree_ThenEnrich ==
    /\ pc = "build_horizontal_tree"
    /\ tree' = build_tree_horizontal(build_tree(portfolios), funds, 0)
    /\ pc' = "tree_ready"
    /\ UNCHANGED <<inputs, selection, session, run, check, harm, outputs, pool, plan_returns_adjust, tree_sub, deep, error>>

\* build_horizontal_tree: build the tree, split off the rows of the mask.
BuildHorizontalTree ==
    /\ pc = "build_horizontal_tree"
    /\ LET full == build_tree_horizontal(build_tree(portfolios), funds, 0)
       IN  /\ tree' = SelectSeq(full, LAMBDA r : ~SubmassaMask(r, port_submassa))
           /\ tree_sub' = SelectSeq(full, LAMBDA r : SubmassaMask(r, port_submassa))
    /\ pc' = "explode"
    /\ UNCHANGED <<inputs, selection, session, run, check, harm, outputs, pool, plan_returns_adjust, deep, error>>

\* run_pipeline: tree_hrztl_sub = explode_horizontal_tree_submassa(...)
ExplodeSubmassa ==
    /\ pc = "explode"
    /\ tree_sub' = explode_horizontal_tree_submassa(tree_sub, port_submassa)
    /\ pc' = "concat"
    /\ UNCHANGED <<inputs, selection, session, run, check, harm, outputs, pool, plan_returns_adjust, tree, deep, error>>

\* A row of tree_hrztl after pd.concat([tree_hrztl, tree_hrztl_sub]): the
\* sub-group columns it lacks are NaN.
WithoutSubmassa(r) ==
    [WithSubmassaDefaults(r) EXCEPT !.pct_submassa_isin_cnpb = NaN]

\* tree_hrztl['CODCART'].fillna('')
FillCodcart(r) == IF r.CODCART = Null THEN [r EXCEPT !.CODCART = Empty] ELSE r

\* run_pipeline lines 796-799: concat and CODCART.fillna('').
ConcatTrees ==
    /\ pc = "concat"
    /\ LET all == [k \in DOMAIN tree |-> WithoutSubmassa(tree[k])] \o tree_sub
       IN  tree' = [k \in DOMAIN all |-> FillCodcart(all[k])]
    /\ pc' = "tree_ready"
    /\ UNCHANGED <<inputs, selection, session, run, check, harm, outputs, pool, plan_returns_adjust, tree_sub, deep, error>>

\* enrich_values: accumulate_columns_by_level(tree, 'equity_stake_leaf',
\* 'equity_stake', max_depth) with max_depth = tree['nivel'].max().
AccumulateStake ==
    /\ pc = "tree_ready"
    /\ tree' = [k \in DOMAIN tree |->
                  tree[k] @@ [equity_stake_leaf |->
                      accumulate_columns_by_level(tree[k], MaxNivel(tree))]]
    /\ pc' = "proportional_value"
    /\ UNCHANGED <<inputs, selection, session, run, check, harm, outputs, pool, plan_returns_adjust, tree_sub, deep, error>>

\* enrich_values: compute_proportional_value(tree, max_depth).
ComputeProportionalValue ==
    /\ pc = "proportional_value"
    /\ tree' = [k \in DOMAIN tree |->
                  tree[k] @@ [valor_calc_proporcional |->
                      compute_proportional_value(tree[k])]]
    /\ pc' = "total_invest"
    /\ UNCHANGED <<inputs, selection, session, run, check, harm, outputs, pool, plan_returns_adjust, tree_sub, deep, error>>

\* enrich_values lines 122-129: the group-by, total_invest and composicao; a
\* KeyError of the group-by leaves enrich_values and ends the run.
ComputeComposition ==
    /\ pc = "total_invest"
    /\ IF GroupByRaises(TotalInvestGroupCols)
       THEN /\ error' = "KeyError"
            /\ pc' = "failed"
            /\ UNCHANGED tree
       ELSE /\ tree' = WithComposition(tree, TotalInvestGroupCols)
            /\ pc' = "weighted_returns"
            /\ UNCHANGED error
    /\ UNCHANGED <<inputs, selection, session, run, check, harm, outputs, pool, plan_returns_adjust, tree_sub, deep>>

NextSplit ==
    \/ BuildHorizontalTree
    \/ ExplodeSubmassa
    \/ ConcatTrees
    \/ AccumulateStake
    \/ ComputeProportionalValue
    \/ ComputeComposition

SpecSplit == InitSplit /\ [][NextSplit]_vars

\* ------------------------------------------ stages of run_pipeline (SpecRun)
InitRun ==
    /\ funds \in KSubsets(SplitFundDomain, MaxFundRows - 2)
    /\ portfolios \in KSubsets(PortRowDomain, MaxPortRows - 1)
    /\ governance = {}
    /\ port_submassa \in KSubsets(SubmassaDomain, MaxMapRows - 1)
    /\ tree = <<>>
    /\ tree_sub = <<>>
    /\ deep = 0
    /\ pc = "validate_fund_graph_is_acyclic"
    /\ error = "none"
    /\ mec_sac = {}
    /\ plan_returns_adjust = <<>>
    /\ outputs = <<>>
    /\ pool = NoPool
    /\ harm = NoCall
    /\ check = NoCheck
    /\ run = NoRun
    /\ session = NoSession
    /\ selection = NoSelection

\* run_pipeline line 784: validate_fund_graph_is_acyclic(funds); the calls up
\* to build_horizontal_tree leave the tables of the model as they are.
ValidateFundGraphIsAcyclic ==
    /\ pc = "validate_fund_graph_is_acyclic"
    /\ IF ValidatorRaises(funds)
       THEN /\ pc' = "failed"
            /\ error' = "ValueError"
       ELSE /\ pc' = "build_horizontal_tree"
            /\ error' = error
    /\ UNCHANGED <<inputs, selection, session, run, check, harm, outputs, pool, plan_returns_adjust, tree, tree_sub, deep>>

NextRun ==
    \/ ValidateFundGraphIsAcyclic
    \/ NextSplit

SpecRun == InitRun /\ [][NextRun]_vars

\* --------------------------------------------------- accumulator (SpecAcc)
Stakes == {NaN, <<1, 2>>, <<2, 5>>}

AccFundDomain ==
    UNION {{FundRow(c, 1, i, Num(100), e) : i \in Holdable(c, Funds), e \in Stakes} :
              c \in Funds}

AccPortDomain == {PortRow(11, 21, 1, i, Num(100), e) : i \in Isins, e \in Stakes}

InitAcc ==
    /\ funds \in KSubsets(AccFundDomain, MaxFundRows - 1)
    /\ portfolios \in KSubsets(AccPortDomain, MaxPortRows - 1) \ {{}}
    /\ governance = {}
    /\ port_submassa = {}
    /\ tree = <<>>
    /\ tree_sub = <<>>
    /\ deep = 0
    /\ pc = "build_horizontal_tree"
    /\ error = "none"
    /\ mec_sac = {}
    /\ plan_returns_adjust = <<>>
    /\ outputs = <<>>
    /\ pool = NoPool
    /\ harm = NoCall
    /\ check = NoCheck
    /\ run = NoRun
    /\ session = NoSession
    /\ selection = NoSelection

SpecAcc == InitAcc /\ [][NextSplit]_vars

\* ------------------------------------------------ value enrichment (SpecVal)
\* Tables with stakes and values that differ by level, split over sub-groups.
ValFundDomain ==
    UNION {{FundRow(c, 1, i, Num(50), e) : i \in Holdable(c, Funds), e \in {NaN, <<2, 5>>}} :
              c \in Funds}

ValPortDomain == {PortRow(11, 21, 1, i, Num(100), <<1, 2>>) : i \in Isins}

InitVal ==
    /\ funds \in KSubsets(ValFundDomain, MaxFundRows - 2)
    /\ portfolios \in KSubsets(ValPortDomain, MaxPortRows - 1) \ {{}}
    /\ governance = {}
    /\ port_submassa \in KSubsets(SubmassaDomain, MaxMapRows - 1)
    /\ tree = <<>>
    /\ tree_sub = <<>>
    /\ deep = 0
    /\ pc = "build_horizontal_tree"
    /\ error = "none"
    /\ mec_sac = {}
    /\ plan_returns_adjust = <<>>
    /\ outputs = <<>>
    /\ pool = NoPool
    /\ harm = NoCall
    /\ check = NoCheck
    /\ run = NoRun
    /\ session = NoSession
    /\ selection = NoSelection

SpecVal == InitVal /\ [][NextSplit]_vars

\* ------------------------------------------- governance resolver (SpecGov)
GovFundDomain ==
    UNION {{FundRow(c, 1, i, Num(100), NaN) : i \in Holdable(c, Funds)} :
              c \in Funds}

GovPortDomain ==
    {PortRow(11, 21, 1, i, Num(100), NaN) :
        i \in Funds \cup EmptyRefIsins \cup Assets}

\* The tree as enrich_horizontal_tree hands it to assign_governance_struct_keys:
\* built, concatenated, with equity_stake_leaf and valor_calc_proporcional.
EnrichedTree(fs, ps) ==
    LET built == build_tree_horizontal(build_tree(ps), fs, 0)
        cat == [k \in DOMAIN built |-> FillCodcart(WithoutSubmassa(built[k]))]
        acc == [k \in DOMAIN cat |->
                   cat[k] @@ [equity_stake_leaf |->
                       accumulate_columns_by_level(cat[k], MaxNivel(cat))]]
    IN  [k \in DOMAIN acc |->
            acc[k] @@ [valor_calc_proporcional |-> compute_proportional_value(acc[k])]]

InitGov ==
    /\ funds \in KSubsets(GovFundDomain, MaxFundRows - 1)
    /\ portfolios \in KSubsets(GovPortDomain, MaxPortRows) \ {{}}
    /\ governance \in SUBSET (Funds \cup {11})
    /\ port_submassa = {}
    /\ tree = EnrichedTree(funds, portfolios)
    /\ tree_sub = <<>>
    /\ deep = 0
    /\ pc = "assign_key"
    /\ error = "none"
    /\ mec_sac = {}
    /\ plan_returns_adjust = <<>>
    /\ outputs = <<>>
    /\ pool = NoPool
    /\ harm = NoCall
    /\ check = NoCheck
    /\ run = NoRun
    /\ session = NoSession
    /\ selection = NoSelection

\* assign_governance_struct_keys: assign_estrutura_gerencial_key(tree, keys,
\* tree['nivel'].max()).
AssignEstruturaGerencialKey ==
    /\ pc = "assign_key"
    /\ tree' = assign_estrutura_gerencial_key(tree, governance, MaxNivel(tree))
    /\ pc' = "fill_missing"
    /\ UNCHANGED <<inputs, selection, session, run, check, harm, outputs, pool, plan_returns_adjust, tree_sub, deep, error>>

\* assign_governance_struct_keys: fill_missing_governance_struct(tree, keys).
FillMissingGovernanceStruct ==
    /\ pc = "fill_missing"
    /\ tree' = fill_missing_governance_struct(tree, governance)
    /\ pc' = "keys_assigned"
    /\ UNCHANGED <<inputs, selection, session, run, check, harm, outputs, pool, plan_returns_adjust, tree_sub, deep, error>>

NextGov ==
    \/ AssignEstruturaGerencialKey
    \/ FillMissingGovernanceStruct

SpecGov == InitGov /\ [][NextGov]_vars

\* ------------------------------------- two runs on the same inputs (SpecTwice)
\* A first run and a second one on the tables the first run left: the tree
\* operations of run_pipeline (expansion, splitter, accumulation) or the
\* governance resolution of an enriched tree.
InitTwice ==
    /\ funds \in KSubsets(GovFundDomain, MaxFundRows - 2)
    /\ portfolios \in KSubsets(GovPortDomain, MaxPortRows - 1) \ {{}}
    /\ \/ /\ pc = "build_horizontal_tree"
          /\ governance = {}
          /\ port_submassa \in KSubsets(SubmassaDomain, MaxMapRows - 2)
          /\ tree = <<>>
       \/ /\ pc = "assign_key"
          /\ governance \in KSubsets(Funds \cup {11}, MaxMapRows - 2)
          /\ port_submassa = {}
          /\ tree = EnrichedTree(funds, portfolios)
    /\ tree_sub = <<>>
    /\ deep = 0
    /\ error = "none"
    /\ mec_sac = {}
    /\ plan_returns_adjust = <<>>
    /\ outputs = <<>>
    /\ pool = NoPool
    /\ harm = NoCall
    /\ check = NoCheck
    /\ run = NoRun
    /\ session = NoSession
    /\ selection = NoSelection

\* What a finished run hands back: the tree and the exception, if any.
RunOutput == [tree |-> tree, error |-> error]

\* The tree operations ended (enrich_values raised): keep the output and call
\* them again; nothing but the exception is cleared.
RunAgainTree ==
    /\ pc = "failed"
    /\ Len(outputs) < 2
    /\ outputs' = Append(outputs, RunOutput)
    /\ pc' = IF Len(outputs) = 0 THEN "build_horizontal_tree" ELSE "compared"
    /\ error' = "none"
    /\ UNCHANGED <<inputs, selection, session, run, check, harm, pool, plan_returns_adjust, tree, tree_sub, deep>>

\* assign_governance_struct_keys returned: keep the output and call it again
\* on the enriched tree of the same inputs.
RunAgainGovernance ==
    /\ pc = "keys_assigned"
    /\ Len(outputs) < 2
    /\ outputs' = Append(outputs, RunOutput)
    /\ pc' = IF Len(outputs) = 0 THEN "assign_key" ELSE "compared"
    /\ tree' = IF Len(outputs) = 0 THEN EnrichedTree(funds, portfolios) ELSE tree
    /\ UNCHANGED <<inputs, selection, session, run, check, harm, pool, plan_returns_adjust, tree_sub, deep, error>>

NextTwice ==
    \/ NextSplit
    \/ NextGov
    \/ RunAgainTree
    \/ RunAgainGovernance

SpecTwice == InitTwice /\ [][NextTwice]_vars

\* ------------------------------------------ worker pool of parse_files (SpecPool)
Workers == 1..NumWorkers

XmlFiles == 1..NumFiles

\* What a source file holds: no root node, a root without header, or the
\* positions of a fund or of a portfolio.
XmlContent == {"no_root", "no_header", "fundo", "carteira"}

\* parse_files(str_file_name) on a file of content c: an empty dict without
\* root node, ValueError without header, else the extracted node data.
parse_files(c) ==
    CASE c = "no_root" -> [raised |-> "none", data |-> <<>>]
      [] c = "no_header" -> [raised |-> "ValueError", data |-> <<>>]
      [] OTHER -> [raised |-> "none", data |-> <<"header", c>>]

\* The memory cell COUNT_PARSE of worker w: the parent's shared cell (0) when
\* the workers are forked, the worker's own cell when they are spawned and
\* import the module again.
Cell(w) == IF pool.start = "fork" THEN 0 ELSE w

\* Mutant of LockFree: COUNT_PARSE.get_lock() never blocks.
LockFree_Always(c) == TRUE

\* COUNT_PARSE.get_lock() is free.
LockFree(c) == pool.lock[c] = 0

InitPool ==
    /\ funds = {}
    /\ portfolios = {}
    /\ governance = {}
    /\ port_submassa = {}
    /\ mec_sac = {}
    /\ tree = <<>>
    /\ tree_sub = <<>>
    /\ deep = 0
    /\ pc = "parse_xml_content"
    /\ error = "none"
    /\ plan_returns_adjust = <<>>
    /\ outputs = <<>>
    /\ harm = NoCall
    /\ check = NoCheck
    /\ \E st \in {"fork", "spawn"}, fs \in [XmlFiles -> XmlContent] :
          pool = [start |-> st,
                  files |-> fs,
                  queue |-> [f \in XmlFiles |-> f],
                  count |-> [c \in 0..NumWorkers |-> 0],
                  lock |-> [c \in 0..NumWorkers |-> 0],
                  writers |-> [c \in 0..NumWorkers |-> {}],
                  at |-> [w \in Workers |-> "idle"],
                  task |-> [w \in Workers |-> 0],
                  value |-> [w \in Workers |-> 0],
                  results |-> [f \in XmlFiles |-> <<>>],
                  finished |-> <<>>,
                  parsed_content |-> <<>>]
    /\ run = NoRun
    /\ session = NoSession
    /\ selection = NoSelection

\* The pool hands the next task of starmap to an idle worker.
TakeTask(w) ==
    /\ pc = "parse_xml_content"
    /\ pool.at[w] = "idle"
    /\ pool.queue # <<>>
    /\ pool' = [pool EXCEPT !.queue = Tail(@),
                            !.task[w] = Head(pool.queue),
                            !.at[w] = "get_lock"]
    /\ UNCHANGED <<inputs, selection, session, run, check, harm, outputs, plan_returns_adjust, tree, tree_sub, deep, pc, error>>

\* with COUNT_PARSE.get_lock():
GetLock(w) ==
    /\ pool.at[w] = "get_lock"
    /\ LockFree(Cell(w))
    /\ pool' = [pool EXCEPT !.lock[Cell(w)] = w, !.at[w] = "read"]
    /\ UNCHANGED <<inputs, selection, session, run, check, harm, outputs, plan_returns_adjust, tree, tree_sub, deep, pc, error>>

\* COUNT_PARSE.value += 1, the read.
ReadCount(w) ==
    /\ pool.at[w] = "read"
    /\ pool' = [pool EXCEPT !.value[w] = pool.count[Cell(w)], !.at[w] = "write"]
    /\ UNCHANGED <<inputs, selection, session, run, check, harm, outputs, plan_returns_adjust, tree, tree_sub, deep, pc, error>>

\* COUNT_PARSE.value += 1, the write; the with block releases the lock.
WriteCount(w) ==
    /\ pool.at[w] = "write"
    /\ pool' = [pool EXCEPT !.count[Cell(w)] = pool.value[w] + 1,
                            !.writers[Cell(w)] = @ \cup {w},
                            !.lock[Cell(w)] = IF @ = w THEN 0 ELSE @,
                            !.at[w] = "parse"]
    /\ UNCHANGED <<inputs, selection, session, run, check, harm, outputs, plan_returns_adjust, tree, tree_sub, deep, pc, error>>

\* Mutant of ResultSlot: the results are kept in the order the workers
\* finish, as imap_unordered would.
ResultSlot_Completion(w) == Len(pool.finished) + 1

\* The position of the list starmap returns that takes the result of worker
\* w: the position of its task in the iterable handed to the pool.
ResultSlot(w) == pool.task[w]

\* The rest of parse_files; the worker sends its result (or its exception)
\* back, and the pool's result handler stores it at the task's position.
\* finished records the order in which the tasks ended.
ReturnResult(w) ==
    /\ pool.at[w] = "parse"
    /\ pool' = [pool EXCEPT !.results[ResultSlot(w)] = <<parse_files(pool.files[pool.task[w]])>>,
                            !.finished = Append(@, pool.task[w]),
                            !.task[w] = 0,
                            !.at[w] = "idle"]
    /\ UNCHANGED <<inputs, selection, session, run, check, harm, outputs, plan_returns_adjust, tree, tree_sub, deep, pc, error>>

\* pool.starmap returns in the orchestrating process: the list of the results
\* in task order, or the first exception a worker raised.
Starmap ==
    /\ pc = "parse_xml_content"
    /\ \A f \in XmlFiles : pool.results[f] # <<>>
    /\ LET raised == {f \in XmlFiles : pool.results[f][1].raised # "none"}
       IN  IF raised = {}
           THEN /\ pool' = [pool EXCEPT !.parsed_content =
                                [f \in XmlFiles |-> pool.results[f][1].data]]
                /\ pc' = "convert_to_pandas"
                /\ UNCHANGED error
           ELSE /\ LET first == CHOOSE f \in raised : \A g \in raised : f <= g
                   IN  error' = pool.results[first][1].raised
                /\ pc' = "failed"
                /\ UNCHANGED pool
    /\ UNCHANGED <<inputs, selection, session, run, check, harm, outputs, plan_returns_adjust, tree, tree_sub, deep>>

NextPool ==
    \/ \E w \in Workers : TakeTask(w)
    \/ \E w \in Workers : GetLock(w)
    \/ \E w \in Workers : ReadCount(w)
    \/ \E w \in Workers : WriteCount(w)
    \/ \E w \in Workers : ReturnResult(w)
    \/ Starmap

SpecPool == InitPool /\ [][NextPool]_vars

\* ------------------------------------------------ harmonize_values (SpecHarm)
\* Columns a raw position table may have.
RawColumns == {"tipo", "classeoperacao", "saldo"}

\* A value of each raw column.
RawValues == [tipo |-> {"caixa", "cotas"}, classeoperacao |-> {"C"}, saldo |-> {"100"}]

\* The tables of one row over the columns cols.
RawTables ==
    UNION {{[columns |-> cols, rows |-> <<r>>] :
               r \in [cols -> UNION {RawValues[c] : c \in cols}]} :
           cols \in SUBSET RawColumns \ {{}}}

\* Harmonization rules: filters on columns, and as the formula the constant
\* "7" or the list of the one column to sum, saldo.
RuleFilters ==
    {<<[column |-> "tipo", value |-> "caixa"]>>,
     <<[column |-> "classeoperacao", value |-> "C"]>>,
     <<[column |-> "tipo", value |-> "cotas"],
       [column |-> "classeoperacao", value |-> "C"]>>}

HarmonizationRules ==
    {[filters |-> f, formula |-> fo] : f \in RuleFilters, fo \in {<<"7">>, <<"saldo">>}}

\* missing_columns of validate_required_columns, in the order required.
MissingColumns(columns, required) ==
    SelectSeq(required, LAMBDA c : c \notin columns)

\* No ValueError of validate_required_columns.
NotRaised == [caller |-> "", missing |-> <<>>]

\* validate_required_columns called from caller: what the ValueError it raises
\* names, or NotRaised.
validate_required_columns(columns, required, caller) ==
    IF MissingColumns(columns, required) # <<>>
    THEN [caller |-> caller, missing |-> MissingColumns(columns, required)]
    ELSE NotRaised

\* The mask of a rule on a row: every filter column holds the filter value.
RuleMask(row, filters) ==
    \A i \in DOMAIN filters : row[filters[i].column] = filters[i].value

InitHarm ==
    /\ funds = {}
    /\ portfolios = {}
    /\ governance = {}
    /\ port_submassa = {}
    /\ mec_sac = {}
    /\ tree = <<>>
    /\ tree_sub = <<>>
    /\ deep = 0
    /\ pc = "harmonize_values"
    /\ error = "none"
    /\ plan_returns_adjust = <<>>
    /\ outputs = <<>>
    /\ pool = NoPool
    /\ check = NoCheck
    /\ \E t \in RawTables, rules \in SeqsUpTo(HarmonizationRules, MaxRules) \ {<<>>} :
          harm = [k |-> 0, before |-> t, dtfr |-> t, rules |-> rules,
                  raised |-> NotRaised]
    /\ run = NoRun
    /\ session = NoSession
    /\ selection = NoSelection

\* harmonize_values line 94: dtfr['valor_calc'] = None.
HarmonizeValues ==
    /\ pc = "harmonize_values"
    /\ harm' = [harm EXCEPT
                   !.dtfr = [columns |-> harm.dtfr.columns \cup {"valor_calc"},
                             rows |-> [i \in DOMAIN harm.dtfr.rows |->
                                 [c \in harm.dtfr.columns \cup {"valor_calc"} |->
                                     IF c = "valor_calc" THEN <<>>
                                     ELSE harm.dtfr.rows[i][c]]]],
                   !.k = 1]
    /\ pc' = "harmonization_rule"
    /\ UNCHANGED <<inputs, selection, session, run, check, outputs, pool, plan_returns_adjust, tree, tree_sub, deep, error>>

\* One turn of the loop over the rules: validate the filter columns, build
\* the mask, write the formula's value on the rows of the mask.
HarmonizationRule ==
    /\ pc = "harmonization_rule"
    /\ harm.k <= Len(harm.rules)
    /\ LET rule == harm.rules[harm.k]
           filter_columns == [i \in DOMAIN rule.filters |-> rule.filters[i].column]
           raised == validate_required_columns(harm.dtfr.columns, filter_columns,
                                               "harmonize_values")
           masked == {i \in DOMAIN harm.dtfr.rows :
                         RuleMask(harm.dtfr.rows[i], rule.filters)}
           formula == rule.formula[1]
       IN  IF raised # NotRaised
           THEN /\ harm' = [harm EXCEPT !.raised = raised]
                /\ error' = "ValueError"
                /\ pc' = "failed"
           ELSE IF masked = {}
           THEN /\ harm' = [harm EXCEPT !.k = @ + 1]
                /\ UNCHANGED <<pc, error>>
           ELSE IF formula \in RawColumns /\ formula \notin harm.dtfr.columns
           THEN /\ error' = "KeyError"
                /\ pc' = "failed"
                /\ UNCHANGED harm
           ELSE /\ harm' = [harm EXCEPT
                    !.k = @ + 1,
                    !.dtfr.rows = [i \in DOMAIN harm.dtfr.rows |->
                        IF i \in masked
                        THEN [harm.dtfr.rows[i] EXCEPT !.valor_calc =
                                 IF formula \in RawColumns
                                 THEN <<harm.dtfr.rows[i][formula]>>
                                 ELSE <<formula>>]
                        ELSE harm.dtfr.rows[i]]]
                /\ UNCHANGED <<pc, error>>
    /\ UNCHANGED <<inputs, selection, session, run, check, outputs, pool, plan_returns_adjust, tree, tree_sub, deep>>

\* The loop is over: harmonize_values returns.
HarmonizeReturn ==
    /\ pc = "harmonization_rule"
    /\ harm.k > Len(harm.rules)
    /\ pc' = "harmonized"
    /\ UNCHANGED <<inputs, selection, session, run, check, harm, outputs, pool, plan_returns_adjust, tree, tree_sub, deep, error>>

NextHarm ==
    \/ HarmonizeValues
    \/ HarmonizationRule
    \/ HarmonizeReturn

SpecHarm == InitHarm /\ [][NextHarm]_vars

\* ------------------------------------------- reconciliation checks (SpecCheck)
\* Position rows as the checks read them: instrument, date, unit price and
\* computed value.
PriceRows ==
    {[isin |-> i, dtposicao |-> d, puposicao |-> p, valor_calc |-> 50] :
        i \in Isins, d \in Dates, p \in {10, 11}}

\* Functions the module integrity_checks defines, with their parameters.
CheckerFunctions ==
    [check_puposicao |-> <<"investor_holdings", "invested">>,
     check_composition_consistency |-> <<"entity", "group_keys">>]

\* The (isin, dtposicao) groups of rows with more than one distinct price.
InconsistentGroups(rows) ==
    {<<r.isin, r.dtposicao>> : r \in {x \in rows : \E y \in rows :
        /\ y.isin = x.isin
        /\ y.dtposicao = x.dtposicao
        /\ y.puposicao # x.puposicao}}

\* Holdings of fund shares whose price differs from the fund's quota value.
DivergentPuposicaoVlcota(rows, valor) ==
    {r \in rows : r.isin \in Funds /\ r.puposicao # valor}

RECURSIVE SumValorCalc(_)
SumValorCalc(rows) ==
    IF rows = {} THEN 0
    ELSE LET r == CHOOSE x \in rows : TRUE
         IN  r.valor_calc + SumValorCalc(rows \ {r})

\* check_composition_consistency: per date, the total of valor_calc against
\* the declared valor_serie; the groups with diff != 0.
DivergentPl(rows, valor_serie) ==
    {[dtposicao |-> d,
      total_invest |-> SumValorCalc({r \in rows : r.dtposicao = d}),
      valor_serie |-> valor_serie] :
        d \in {x \in {r.dtposicao : r \in rows} :
                  SumValorCalc({r \in rows : r.dtposicao = x}) # valor_serie}}

\* round(x, 8) of the fraction x.
Round8(x) ==
    IF IsNaN(x) THEN NaN
    ELSE LET scaled == x[1] * 100000000
             q == (2 * Abs(scaled) + x[2]) \div (2 * x[2])
         IN  <<IF scaled < 0 THEN -q ELSE q, 100000000>>

\* The price of instrument i on date d in rows, NaN when there is none.
PriceOn(rows, i, d) ==
    IF \E r \in rows : r.isin = i /\ r.dtposicao = d
    THEN Num((CHOOSE r \in rows : r.isin = i /\ r.dtposicao = d).puposicao)
    ELSE NaN

\* The part of compute_returns_from_puposicao after the duplicate check, with
\* nothing persisted: the grid of instruments and dates, and rentab as the
\* change against the previous date of the instrument, rounded to 8 places.
ReturnsGrid(rows, range_date) ==
    LET dates == {r.dtposicao : r \in rows} \cup range_date
        grid == SortedBy({<<i, d>> : i \in {r.isin : r \in rows}, d \in dates},
                         [k \in {<<i, d>> : i \in {r.isin : r \in rows}, d \in dates} |-> k])
    IN  [g \in DOMAIN grid |->
            LET i == grid[g][1]
                d == grid[g][2]
                first == \A e \in dates : e >= d
                prev == IF first THEN NaN ELSE PriceOn(rows, i, Max({e \in dates : e < d}))
                now == PriceOn(rows, i, d)
            IN  [isin |-> i, dtposicao |-> d, puposicao |-> now,
                 rentab |-> IF IsNaN(prev) \/ IsNaN(now) THEN NaN
                            ELSE Round8(Div(Add(now, <<-prev[1], prev[2]>>), prev))]]

InitCheck ==
    /\ funds = {}
    /\ portfolios = {}
    /\ governance = {}
    /\ port_submassa = {}
    /\ mec_sac = {}
    /\ tree = <<>>
    /\ tree_sub = <<>>
    /\ deep = 0
    /\ pc \in {"check_values_integrity", "check_puposicao_consistency",
               "compute_returns_from_puposicao"}
    /\ error = "none"
    /\ plan_returns_adjust = <<>>
    /\ outputs = <<>>
    /\ pool = NoPool
    /\ harm = NoCall
    /\ \E rows \in KSubsets(PriceRows, MaxPortRows), v \in {10, 11}, vs \in {50, 100} :
          check = [op |-> pc, rows |-> rows, valor |-> v, valor_serie |-> vs,
                   reports |-> {}, returns |-> <<>>]
    /\ run = NoRun
    /\ session = NoSession
    /\ selection = NoSelection

\* check_values_integrity: the price of each holding against the quota value
\* of the fund, then the total against the declared net asset value; each
\* list of divergent rows is saved as evidence.
CheckValuesIntegrity ==
    /\ pc = "check_values_integrity"
    /\ IF "check_puposicao_vs_valorcota" \notin DOMAIN CheckerFunctions
       THEN /\ error' = "AttributeError"
            /\ pc' = "failed"
            /\ UNCHANGED check
       ELSE IF CallRaises(CheckerFunctions.check_composition_consistency,
                          <<"entity", "group_keys", "0.01 / 100.0">>)
       THEN /\ error' = "TypeError"
            /\ pc' = "failed"
            /\ check' = [check EXCEPT !.reports = @ \cup
                   IF DivergentPuposicaoVlcota(check.rows, check.valor) # {}
                   THEN {[name |-> "puposicao_divergente_vlcota",
                          rows |-> DivergentPuposicaoVlcota(check.rows, check.valor)]}
                   ELSE {}]
       ELSE /\ check' = [check EXCEPT !.reports = @
                   \cup (IF DivergentPuposicaoVlcota(check.rows, check.valor) # {}
                         THEN {[name |-> "puposicao_divergente_vlcota",
                                rows |-> DivergentPuposicaoVlcota(check.rows, check.valor)]}
                         ELSE {})
                   \cup (IF DivergentPl(check.rows, check.valor_serie) # {}
                         THEN {[name |-> "pl_divergente",
                                rows |-> DivergentPl(check.rows, check.valor_serie)]}
                         ELSE {})]
            /\ pc' = "checked"
            /\ UNCHANGED error
    /\ UNCHANGED <<inputs, selection, session, run, harm, outputs, pool, plan_returns_adjust, tree, tree_sub, deep>>

\* check_puposicao_consistency: the rows of the groups with conflicting prices
\* are logged and saved as evidence; the function returns.
CheckPuposicaoConsistency ==
    /\ pc = "check_puposicao_consistency"
    /\ LET groups == InconsistentGroups(check.rows)
       IN  check' = [check EXCEPT !.reports = @ \cup
               IF groups # {}
               THEN {[name |-> "puposicao_divergente_mesma_data",
                      rows |-> {r \in check.rows : <<r.isin, r.dtposicao>> \in groups}]}
               ELSE {}]
    /\ pc' = "checked"
    /\ UNCHANGED <<inputs, selection, session, run, harm, outputs, pool, plan_returns_adjust, tree, tree_sub, deep, error>>

\* compute_returns_from_puposicao(range_date, new_data, persisted_returns):
\* ValueError on conflicting prices, else the grid with the returns.
ComputeReturnsFromPuposicao ==
    /\ pc = "compute_returns_from_puposicao"
    /\ IF InconsistentGroups(check.rows) # {}
       THEN /\ error' = "ValueError"
            /\ pc' = "failed"
            /\ UNCHANGED check
       ELSE /\ check' = [check EXCEPT !.returns = ReturnsGrid(check.rows, Dates)]
            /\ pc' = "checked"
            /\ UNCHANGED error
    /\ UNCHANGED <<inputs, selection, session, run, harm, outputs, pool, plan_returns_adjust, tree, tree_sub, deep>>

NextCheck ==
    \/ CheckValuesIntegrity
    \/ CheckPuposicaoConsistency
    \/ ComputeReturnsFromPuposicao

SpecCheck == InitCheck /\ [][NextCheck]_vars

\* ------------------------------------------------------- adjuster (SpecAdj)

\* Tree rows after governance resolution, reduced to the columns the adjuster
\* reads.
AdjTreeDomain ==
    {[cnpb |-> 21, dtposicao |-> d, CODCART |-> Empty,
      contribution_rentab_ponderada |-> c] :
        d \in Dates, c \in {Num(3), Num(12), Num(-3)}}

MecSacDomain ==
    {[CODCLI |-> 41, DT |-> d, VL_PATRLIQTOT1 |-> Num(100), RENTAB_DIA |-> r] :
        d \in Dates, r \in {Num(1), <<25, 2>>}}
    \cup {[CODCLI |-> 42, DT |-> d, VL_PATRLIQTOT1 |-> Num(300), RENTAB_DIA |-> r] :
        d \in Dates, r \in {Num(1), <<25, 2>>}}

InitAdj ==
    /\ funds = {}
    /\ portfolios = {}
    /\ governance = {}
    /\ port_submassa = {}
    /\ mec_sac \in {m \in KSubsets(MecSacDomain, MaxMapRows - 1) :
                       \A x, y \in m : (x.CODCLI = y.CODCLI /\ x.DT = y.DT) => x = y}
    /\ tree \in SeqsUpTo(AdjTreeDomain, MaxPortRows)
    /\ tree_sub = <<>>
    /\ deep = 0
    /\ pc = "compute_adjustment"
    /\ error = "none"
    /\ plan_returns_adjust = <<>>
    /\ outputs = <<>>
    /\ pool = NoPool
    /\ harm = NoCall
    /\ check = NoCheck
    /\ run = NoRun
    /\ session = NoSession
    /\ selection = NoSelection

\* compute_plan_returns_adjustment called with its three parameters.
ComputePlanReturnsAdjustment ==
    /\ pc = "compute_adjustment"
    /\ plan_returns_adjust' = compute_plan_returns_adjustment(tree, mec_sac)
    /\ pc' = "adjustment_computed"
    /\ UNCHANGED <<inputs, selection, session, run, check, harm, outputs, pool, tree, tree_sub, deep, error>>

NextAdj == ComputePlanReturnsAdjustment

SpecAdj == InitAdj /\ [][NextAdj]_vars

\* ------------------------------------ adjuster stage of the run (SpecAdjust)
\* Functions the module auxiliary_loaders defines.
AuxLoaderFunctions ==
    {"convert_column_types", "load_assets_aux", "load_db_cad_fi_cvm",
     "load_dcadplano", "load_enrich_auxiliary_data", "load_governance_struct",
     "load_range_eom", "load_returns_by_puposicao",
     "load_mec_sac_last_day_month", "load_cnpb_codcli_mapping",
     "load_dcadplanosac"}

\* load_mecsac: the attribute aux_loader.load_mecsac_file is looked up when
\* the worker pool is handed its task.
LoadMecsacRaises == "load_mecsac_file" \notin AuxLoaderFunctions

\* Parameters of compute_plan_returns_adjustment and the arguments
\* compute_plan_returns_adjust passes to it.
AdjustmentParams == <<"tree_hrztl", "mec_sac", "dcadplanosac">>

AdjustmentArgs == <<"tree_hrztl", "mec_sac", "dcadplanosac", "port_submassa">>

\* Columns of the third frame compute_plan_returns_adjustment returns.
PlanReturnsAdjustColumns ==
    {"cnpb", "dtposicao", "contribution_rentab_ponderada", "CNPB", "DT",
     "RENTAB_DIA_PONDERADA_MEC_SAC", "contribution_ajuste_rentab",
     "contribution_ajuste_rentab_fator"}

\* plan_returns_adjust[cols_adjust] in compute_plan_returns_adjust.
ColsAdjust ==
    {"cnpb", "dtposicao", "contribution_ajuste_rentab",
     "contribution_ajuste_rentab_fator", "CODCART"}

SelectRaises(columns, cols) == ~(cols \subseteq columns)

\* compute_plan_returns_adjust after the selection: the delta becomes the
\* contribution of a level-0 row with the '#AJUSTE' markers.
adjust_rentab(pra) ==
    [k \in DOMAIN pra |->
        [cnpb |-> pra[k].cnpb, dtposicao |-> pra[k].dtposicao,
         CODCART |-> Empty,
         contribution_rentab_ponderada |-> pra[k].contribution_ajuste_rentab,
         contribution_ajuste_rentab_fator |-> pra[k].contribution_ajuste_rentab_fator,
         nivel |-> 0,
         KEY_ESTRUTURA_GERENCIAL |-> "#AJUSTE"]]

\* assign_adjustments: left merge of the factor on (cnpb, CODCART, dtposicao),
\* the adjusted contribution, and the adjustment rows appended.
assign_adjustments(rows, adj) ==
    LET With(r, f) ==
            r @@ [contribution_ajuste_rentab_fator |-> f,
                  contribution_rentab_ponderada_ajustada |->
                      IF IsNaN(f) THEN NaN
                      ELSE FloatMul(r.contribution_rentab_ponderada, f),
                  KEY_ESTRUTURA_GERENCIAL |-> "",
                  nivel |-> 0]
        merge == [r \in Range(rows) |->
            LET hits == SelectSeq(adj, LAMBDA a : /\ a.cnpb = r.cnpb
                                                  /\ a.CODCART = r.CODCART
                                                  /\ a.dtposicao = r.dtposicao)
            IN  IF hits = <<>> THEN <<With(r, NaN)>>
                ELSE [h \in DOMAIN hits |->
                         With(r, hits[h].contribution_ajuste_rentab_fator)]]
    IN  FlatMap(rows, merge) \o adj

InitAdjust ==
    /\ funds = {}
    /\ portfolios = {}
    /\ governance = {}
    /\ port_submassa = {}
    /\ mec_sac \in {m \in KSubsets(MecSacDomain, MaxMapRows - 1) :
                       \A x, y \in m : (x.CODCLI = y.CODCLI /\ x.DT = y.DT) => x = y}
    /\ tree \in SeqsUpTo(AdjTreeDomain, MaxPortRows)
    /\ tree_sub = <<>>
    /\ deep = 0
    /\ pc = "compute_plan_returns_adjust"
    /\ error = "none"
    /\ plan_returns_adjust = <<>>
    /\ outputs = <<>>
    /\ pool = NoPool
    /\ harm = NoCall
    /\ check = NoCheck
    /\ run = NoRun
    /\ session = NoSession
    /\ selection = NoSelection

\* run_pipeline lines 802-806: compute_plan_returns_adjust, then
\* assign_adjustments; the first exception ends the run.
ComputePlanReturnsAdjust ==
    /\ pc = "compute_plan_returns_adjust"
    /\ IF LoadMecsacRaises
       THEN /\ error' = "AttributeError"
            /\ pc' = "failed"
            /\ UNCHANGED <<tree, plan_returns_adjust>>
       ELSE IF CallRaises(AdjustmentParams, AdjustmentArgs)
       THEN /\ error' = "TypeError"
            /\ pc' = "failed"
            /\ UNCHANGED <<tree, plan_returns_adjust>>
       ELSE IF SelectRaises(PlanReturnsAdjustColumns, ColsAdjust)
       THEN /\ error' = "KeyError"
            /\ pc' = "failed"
            /\ UNCHANGED <<tree, plan_returns_adjust>>
       ELSE /\ plan_returns_adjust' = compute_plan_returns_adjustment(tree, mec_sac)
            /\ tree' = assign_adjustments(tree, adjust_rentab(plan_returns_adjust'))
            /\ pc' = "adjusted"
            /\ UNCHANGED error
    /\ UNCHANGED <<inputs, selection, session, run, check, harm, outputs, pool, tree_sub, deep>>

NextAdjust == ComputePlanReturnsAdjust

SpecAdjust == InitAdjust /\ [][NextAdjust]_vars

\* ------------------------------------ stages of a whole run (SpecStages)
\* One instruction of the run: entering a log_timing block, a call made
\* inside it (a save_df call names the file it writes), or leaving the block.
Enter(stage, step) == [op |-> "enter", stage |-> stage, step |-> step, file |-> ""]

Call(stage, step) == [op |-> "call", stage |-> stage, step |-> step, file |-> ""]

Leave(stage, step) == [op |-> "exit", stage |-> stage, step |-> step, file |-> ""]

SaveDf(file) == [op |-> "call", stage |-> "save_final_files", step |-> "save_final_files",
                 file |-> file]

\* `with log_timing(phase, step): body`, the body being one call.
Timed(stage, step) == <<Enter(stage, step), Call(stage, step), Leave(stage, step)>>

\* The files run_pipeline saves at its end.
FinalFiles == {"carteiras", "fundos", "arvore_carteiras"}

\* run_pipeline under the log_timing('full', 'all_process') block of the
\* script, stage by stage, each stage with the log_timing blocks it opens.
RunPipelineCode ==
    <<Enter("main", "all_process"), Call("load_config", ""), Call("setup_folders", "")>>
    \o Timed("load_dbaux", "load_dbaux")
    \o Timed("parse_files", "find_xml_files")
    \o Timed("parse_files", "parse_xml_content")
    \o Timed("parse_files", "convert_to_pandas")
    \o Timed("clean_and_prepare_raw", "clean_and_prepare")
    \o Timed("explode_partplanprev", "explode_partplanprev")
    \o Timed("explode_partplanprev", "remove_partplanprev")
    \o Timed("enrich", "load_aux_data")
    \o Timed("enrich", "merge_aux_data")
    \o Timed("enrich", "enrich_and_classify")
    \o Timed("check_values_integrity_fundos", "puposicao_vs_vlcota_fundos")
    \o Timed("check_values_integrity_fundos", "pl_consistency_fundos")
    \o Timed("check_values_integrity_carteiras", "puposicao_vs_vlcota_carteiras")
    \o Timed("check_values_integrity_carteiras", "pl_consistency_carteiras")
    \o Timed("check_puposicao_consistency", "puposicao_consistency")
    \o Timed("validate_fund_graph_is_acyclic", "acyclic_graph")
    \o Timed("compute_metrics", "metrics")
    \o Timed("assign_returns_fundos", "returns_fundos")
    \o Timed("assign_returns_fundos", "returns_fundos_over")
    \o Timed("assign_returns_carteiras", "returns_carteiras")
    \o Timed("assign_returns_carteiras", "returns_carteiras_over")
    \o Timed("extract_portfolio_submassa", "extract_portfolio_submassa")
    \o Timed("compute_composition_portfolio_submassa",
             "compute_composition_portfolio_submassa")
    \o Timed("build_horizontal_tree", "build_tree")
    \o Timed("explode_horizontal_tree_submassa", "build_tree_submassa")
    \o <<Call("concat", "")>>
    \o Timed("enrich_horizontal_tree", "enrich_values")
    \o Timed("enrich_horizontal_tree", "enrich_text")
    \o Timed("enrich_horizontal_tree", "governance_struct")
    \o Timed("compute_plan_returns_adjust", "find_mecsac_files")
    \o Timed("compute_plan_returns_adjust", "load_mecsac_content")
    \o Timed("compute_plan_returns_adjust", "compute_adjustment")
    \o Timed("compute_plan_returns_adjust", "enrich_adjustment")
    \o Timed("assign_adjustments", "assign_adjustment")
    \o <<Enter("save_final_files", "save_final_files"),
         SaveDf("carteiras"), SaveDf("fundos"), SaveDf("arvore_carteiras"),
         Leave("save_final_files", "save_final_files"),
         Leave("main", "all_process")>>

\* The instruction after the block that is open at instruction i.
AfterBlock(i) ==
    LET exits == {j \in i..Len(RunPipelineCode) : RunPipelineCode[j].op = "exit"}
    IN  (CHOOSE j \in exits : \A k \in exits : j <= k) + 1

InitStages ==
    /\ funds = {}
    /\ portfolios = {}
    /\ governance = {}
    /\ port_submassa = {}
    /\ mec_sac = {}
    /\ tree = <<>>
    /\ tree_sub = <<>>
    /\ deep = 0
    /\ pc = "run_pipeline"
    /\ error = "none"
    /\ plan_returns_adjust = <<>>
    /\ outputs = <<>>
    /\ pool = NoPool
    /\ harm = NoCall
    /\ check = NoCheck
    /\ run = [at |-> 1, frames |-> <<>>, exc |-> "none", raised_in |-> "none",
              executed |-> <<>>, log |-> <<>>, written |-> {}]
    /\ session = NoSession
    /\ selection = NoSelection

Running == pc = "run_pipeline" /\ run.at <= Len(RunPipelineCode)

\* log_timing, entry: bind the logger, start the timer, run the body.
LogTimingEnter ==
    /\ Running
    /\ run.exc = "none"
    /\ RunPipelineCode[run.at].op = "enter"
    /\ run' = [run EXCEPT !.frames = Append(@, RunPipelineCode[run.at].step),
                          !.at = @ + 1]
    /\ UNCHANGED <<inputs, selection, session, check, harm, pool, outputs, plan_returns_adjust, tree, tree_sub,
                   deep, pc, error>>

\* A call of the run returns; save_df has written its file.
StageReturns ==
    /\ Running
    /\ run.exc = "none"
    /\ RunPipelineCode[run.at].op = "call"
    /\ run' = [run EXCEPT
                  !.executed = Append(@, RunPipelineCode[run.at]),
                  !.written = IF RunPipelineCode[run.at].file = ""
                              THEN @ ELSE @ \cup {RunPipelineCode[run.at].file},
                  !.at = @ + 1]
    /\ UNCHANGED <<inputs, selection, session, check, harm, pool, outputs, plan_returns_adjust, tree, tree_sub,
                   deep, pc, error>>

\* A call of the run raises: nothing of it is kept.
StageRaises ==
    /\ Running
    /\ run.exc = "none"
    /\ RunPipelineCode[run.at].op = "call"
    /\ run' = [run EXCEPT !.exc = "Exception",
                          !.raised_in = RunPipelineCode[run.at].stage]
    /\ UNCHANGED <<inputs, selection, session, check, harm, pool, outputs, plan_returns_adjust, tree, tree_sub,
                   deep, pc, error>>

\* log_timing, normal exit: the duration is logged.
LogTimingExit ==
    /\ Running
    /\ run.exc = "none"
    /\ RunPipelineCode[run.at].op = "exit"
    /\ run' = [run EXCEPT
                  !.log = Append(@, [step |-> RunPipelineCode[run.at].step,
                                     status |-> "timing"]),
                  !.frames = SubSeq(@, 1, Len(@) - 1),
                  !.at = @ + 1]
    /\ UNCHANGED <<inputs, selection, session, check, harm, pool, outputs, plan_returns_adjust, tree, tree_sub,
                   deep, pc, error>>

\* log_timing whose except clause logs and does not raise again: the with
\* statement ends and the run goes on after the block.
LogTimingExcept_Swallow ==
    /\ pc = "run_pipeline"
    /\ run.exc # "none"
    /\ run.frames # <<>>
    /\ run' = [run EXCEPT
                  !.log = Append(@, [step |-> run.frames[Len(run.frames)],
                                     status |-> "fail"]),
                  !.frames = SubSeq(@, 1, Len(@) - 1),
                  !.exc = "none",
                  !.at = AfterBlock(@)]
    /\ UNCHANGED <<inputs, selection, session, check, harm, pool, outputs, plan_returns_adjust, tree, tree_sub,
                   deep, pc, error>>

\* log_timing, except clause: the failure is logged and the exception raised
\* again, out of the block.
LogTimingExcept ==
    /\ pc = "run_pipeline"
    /\ run.exc # "none"
    /\ run.frames # <<>>
    /\ run' = [run EXCEPT
                  !.log = Append(@, [step |-> run.frames[Len(run.frames)],
                                     status |-> "fail"]),
                  !.frames = SubSeq(@, 1, Len(@) - 1)]
    /\ UNCHANGED <<inputs, selection, session, check, harm, pool, outputs, plan_returns_adjust, tree, tree_sub,
                   deep, pc, error>>

\* The exception leaves the script: the interpreter ends with a traceback.
Uncaught ==
    /\ pc = "run_pipeline"
    /\ run.exc # "none"
    /\ run.frames = <<>>
    /\ pc' = "failed"
    /\ error' = run.exc
    /\ UNCHANGED <<inputs, selection, session, run, check, harm, pool, outputs, plan_returns_adjust, tree,
                   tree_sub, deep>>

\* The script reaches its end.
Finished ==
    /\ pc = "run_pipeline"
    /\ run.exc = "none"
    /\ run.at > Len(RunPipelineCode)
    /\ pc' = "done"
    /\ UNCHANGED <<inputs, selection, session, run, check, harm, pool, outputs, plan_returns_adjust, tree,
                   tree_sub, deep, error>>

NextStages ==
    \/ LogTimingEnter
    \/ StageReturns
    \/ StageRaises
    \/ LogTimingExit
    \/ LogTimingExcept
    \/ Uncaught
    \/ Finished

SpecStages == InitStages /\ [][NextStages]_vars

\* ---------------------------------------------------- text enricher (SpecText)
\* Text values of a tree column: "NaN" is the missing value, "" the empty
\* string (which notna() counts as present).
TextValues == {"NaN", "", "a"}

TextNotNa(v) == v # "NaN"

\* Levels of a tree: 0 (the portfolio's own holding) to the deepest fund.
Levels == 0..NumFunds

\* The text columns build_tree keeps (cols_common), each repeated per level
\* by the merges of build_tree_horizontal.
TreeTextColumns ==
    {"isin", "NEW_TIPO", "fNUMERACA.DESCRICAO", "fEMISSOR.NOME_EMISSOR",
     "NEW_NOME_ATIVO", "NEW_GESTOR_WORD_CLOUD"}

\* enrich_text: the base columns it resolves, in its order, isin last.
final_cols_base ==
    <<"NEW_TIPO", "NEW_NOME_ATIVO", "NEW_GESTOR_WORD_CLOUD", "fEMISSOR.NOME_EMISSOR",
      "fNUMERACA.TIPO_ATIVO", "fNUMERACA.DESCRICAO", "isin">>

\* generate_final_columns of enrichment.py: the base columns it resolves.
columns_to_generate ==
    <<"NEW_TIPO", "NEW_NOME_ATIVO", "NEW_GESTOR_WORD_CLOUD", "fEMISSOR.NOME_EMISSOR">>

\* tree_horzt['nivel'].max()
MaxDeep(rows) == Max({rows[i].nivel : i \in 1..Len(rows)})

\* One pass of the loop of create_column_based_on_levels at level i: rows
\* still unresolved take the value of the level's column when it is not null.
RECURSIVE LevelScan(_, _, _)
LevelScan(levels, i, acc) ==
    IF i < 0 THEN acc.value
    ELSE LET mask == acc.unresolved /\ TextNotNa(levels[i])
         IN  LevelScan(levels, i - 1,
                       [value |-> IF mask THEN levels[i] ELSE acc.value,
                        unresolved |-> acc.unresolved /\ ~mask])

\* create_column_based_on_levels of enrichment_text.py, for one row: the new
\* column starts as None, the levels are scanned from deep down to 0.
create_column_based_on_levels(levels, max_deep) ==
    LevelScan(levels, max_deep, [value |-> "NaN", unresolved |-> TRUE])

\* DataFrame.bfill(axis=1) over the cascading columns: every cell takes the
\* next non-null value to its right; position k of the result.
RECURSIVE Bfill(_, _)
Bfill(cells, k) ==
    IF k > Len(cells) THEN "NaN"
    ELSE IF TextNotNa(cells[k]) THEN cells[k] ELSE Bfill(cells, k + 1)

\* create_column_based_on_levels of enrichment.py, for one row: the columns
\* from the deepest level to the base column, back-filled, first cell taken.
create_column_bfill(levels, max_deep) ==
    Bfill([k \in 1..(max_deep + 1) |-> levels[max_deep + 1 - k]], 1)

\* The base columns resolved before the first one the tree does not have
\* (tree_hrzt[col] raises KeyError there).
RECURSIVE ResolvedBefore(_, _)
ResolvedBefore(cols, k) ==
    IF k > Len(cols) \/ cols[k] \notin TreeTextColumns THEN {}
    ELSE {cols[k]} \cup ResolvedBefore(cols, k + 1)

TextKeyError(cols) == \E k \in 1..Len(cols) : cols[k] \notin TreeTextColumns

\* A tree row of the text enricher: its depth and, per text column, the
\* values at the levels; levels below the row's own depth are missing.
TextRow(n, tipo, others) ==
    [nivel |-> n,
     col |-> [c \in TreeTextColumns |->
                  [i \in Levels |-> IF i > n THEN "NaN"
                                    ELSE IF c = "NEW_TIPO" THEN tipo[i] ELSE others[i]]],
     final |-> [c \in {} |-> "NaN"]]

TextProfiles == [Levels -> TextValues]

InitText ==
    /\ funds = {}
    /\ portfolios = {}
    /\ governance = {}
    /\ port_submassa = {}
    /\ mec_sac = {}
    /\ tree_sub = <<>>
    /\ deep = 0
    /\ pc \in {"enrich_text", "generate_final_columns"}
    /\ error = "none"
    /\ plan_returns_adjust = <<>>
    /\ outputs = <<>>
    /\ pool = NoPool
    /\ harm = NoCall
    /\ check = NoCheck
    /\ run = NoRun
    /\ \E n \in Levels, m \in Levels, tipo \in TextProfiles :
         \E others \in {tipo, [i \in Levels |-> "a"], [i \in Levels |-> "NaN"]} :
            tree = <<TextRow(n, tipo, others), TextRow(m, others, tipo)>>
    /\ session = NoSession
    /\ selection = NoSelection

\* enrich_text: resolve the _FINAL column of each base column in turn; a base
\* column the tree lacks ends the call with KeyError, the columns resolved
\* before it stay in the tree (the frame is changed in place).
EnrichText ==
    /\ pc = "enrich_text"
    /\ LET max_deep == MaxDeep(tree)
           done == ResolvedBefore(final_cols_base, 1)
       IN  tree' = [r \in 1..Len(tree) |->
                       [tree[r] EXCEPT !.final =
                           [c \in done |->
                               create_column_based_on_levels(tree[r].col[c], max_deep)]]]
    /\ IF TextKeyError(final_cols_base)
       THEN pc' = "failed" /\ error' = "KeyError"
       ELSE pc' = "text_enriched" /\ UNCHANGED error
    /\ UNCHANGED <<inputs, selection, session, run, check, harm, pool, outputs, plan_returns_adjust, tree_sub,
                   deep>>

\* generate_final_columns of enrichment.py: the same columns by a row-wise back-fill.
GenerateFinalColumns ==
    /\ pc = "generate_final_columns"
    /\ LET max_deep == MaxDeep(tree)
           done == ResolvedBefore(columns_to_generate, 1)
       IN  tree' = [r \in 1..Len(tree) |->
                       [tree[r] EXCEPT !.final =
                           [c \in done |-> create_column_bfill(tree[r].col[c], max_deep)]]]
    /\ IF TextKeyError(columns_to_generate)
       THEN pc' = "failed" /\ error' = "KeyError"
       ELSE pc' = "final_columns_generated" /\ UNCHANGED error
    /\ UNCHANGED <<inputs, selection, session, run, check, harm, pool, outputs, plan_returns_adjust, tree_sub,
                   deep>>

NextText == EnrichText \/ GenerateFinalColumns

SpecText == InitText /\ [][NextText]_vars

\* ------------------------------------ validate_unique_puposicao (SpecUnique)
\* Rows of the price table handed to validate_unique_puposicao: a frame with
\* the default index 1..n, several holders reporting the same instrument.
QuotaRows ==
    {[isin |-> i, cnpjfundo |-> CnpjfundoOfIsin(i), dtposicao |-> d, puposicao |-> p] :
        i \in Funds, d \in Dates, p \in {10, 11}}

\* The value of the key column of a row: 'isin' in returns_by_puposicao.py,
\* 'cnpjfundo' in update_returns_by_puposicao.py.
KeyOf(r, key_col) == IF key_col = "isin" THEN r.isin ELSE r.cnpjfundo

\* data[group_cols].sort_values(by=group_cols): the index labels in the order
\* of (key, dtposicao, puposicao), rows of equal values in frame order.
SortedIndex(data, key_col) ==
    SortedBy(DOMAIN data,
             [k \in DOMAIN data |->
                 <<KeyOf(data[k], key_col), data[k].dtposicao, data[k].puposicao, k>>])

\* .drop_duplicates(): of the rows with the same three values the first of
\* the sorted frame stays.
DropDuplicates(data, key_col, sorted) ==
    SelectSeq(sorted, LAMBDA k :
        \A j \in DOMAIN data :
            (/\ KeyOf(data[j], key_col) = KeyOf(data[k], key_col)
             /\ data[j].dtposicao = data[k].dtposicao
             /\ data[j].puposicao = data[k].puposicao) => k <= j)

\* _find_duplicate_puposicao: duplicated(subset=[key, 'dtposicao'], keep='last')
\* on the sorted, de-duplicated frame marks every row that has a later row of
\* the same key and date; the labels of the marked rows are returned.
find_duplicate_puposicao(data, key_col) ==
    LET data_sorted == DropDuplicates(data, key_col, SortedIndex(data, key_col))
    IN  {data_sorted[a] : a \in {x \in DOMAIN data_sorted :
            \E b \in DOMAIN data_sorted :
                /\ b > x
                /\ KeyOf(data[data_sorted[b]], key_col) = KeyOf(data[data_sorted[x]], key_col)
                /\ data[data_sorted[b]].dtposicao = data[data_sorted[x]].dtposicao}}

\* validate_unique_puposicao: (valid_idx, dupl_idx), with
\* valid_idx = data.index.difference(dupl_idx).
validate_unique_puposicao(data, key_col) ==
    LET dupl_idx == find_duplicate_puposicao(data, key_col)
    IN  [valid_idx |-> DOMAIN data \ dupl_idx, dupl_idx |-> dupl_idx]

InitUnique ==
    /\ funds = {}
    /\ portfolios = {}
    /\ governance = {}
    /\ port_submassa = {}
    /\ mec_sac = {}
    /\ tree = <<>>
    /\ tree_sub = <<>>
    /\ deep = 0
    /\ pc \in {"returns_by_puposicao", "update_returns_by_puposicao"}
    /\ error = "none"
    /\ plan_returns_adjust = <<>>
    /\ outputs = <<>>
    /\ pool = NoPool
    /\ harm = NoCall
    /\ run = NoRun
    /\ \E data \in SeqsUpTo(QuotaRows, MaxFundRows) :
          check = [data |-> data, valid_idx |-> {}, dupl_idx |-> {}, reports |-> {}]
    /\ session = NoSession
    /\ selection = NoSelection

\* validate_unique_puposicao of returns/returns_by_puposicao.py.
ValidateUniquePuposicao ==
    /\ pc = "returns_by_puposicao"
    /\ LET got == validate_unique_puposicao(check.data, "isin")
       IN  check' = [check EXCEPT !.valid_idx = got.valid_idx, !.dupl_idx = got.dupl_idx]
    /\ pc' = "validated"
    /\ UNCHANGED <<inputs, selection, session, run, harm, pool, outputs, plan_returns_adjust, tree, tree_sub,
                   deep, error>>

\* validate_unique_puposicao of update_returns_by_puposicao.py.
ValidateUniquePuposicaoByFund ==
    /\ pc = "update_returns_by_puposicao"
    /\ LET got == validate_unique_puposicao(check.data, "cnpjfundo")
       IN  check' = [check EXCEPT !.valid_idx = got.valid_idx, !.dupl_idx = got.dupl_idx]
    /\ pc' = "validated"
    /\ UNCHANGED <<inputs, selection, session, run, harm, pool, outputs, plan_returns_adjust, tree, tree_sub,
                   deep, error>>

NextUnique == ValidateUniquePuposicao \/ ValidateUniquePuposicaoByFund

SpecUnique == InitUnique /\ [][NextUnique]_vars

\* ------------------------------- returns-disclosure menu (SpecSession)
\* Python's None and a data frame, as values of one shape.
PyNone == [none |-> TRUE, rows |-> {}]

Frame(rows) == [none |-> FALSE, rows |-> rows]

\* Entities of dCadPlanoSAC that a reconciliation can report as missing in
\* Maestro.
EntityRows == {[TIPO |-> "GRUPO", NOME |-> "G1"], [TIPO |-> "PLANO", NOME |-> "P1"]}

\* Plan returns (plan, year, month) that MEC-SAC has and Maestro may lack.
ReturnRows == {"P1/2025/1", "P1/2025/2"}

\* get_maestro_entity_spec: 'order' and 'endpoint' of an entity type.
EntityOrder(tipo) ==
    CASE tipo = "GRUPO" -> 0 [] tipo = "INDEXADOR" -> 1
      [] tipo = "TIPO_PLANO" -> 2 [] tipo = "PLANO" -> 3

EntityEndpoint(tipo) ==
    CASE tipo = "GRUPO" -> "/investimentos/Grupos"
      [] tipo = "INDEXADOR" -> "/investimentos/Indexadores"
      [] tipo = "TIPO_PLANO" -> "/investimentos/TiposPlanos"
      [] tipo = "PLANO" -> "/investimentos/Planos"

\* api_returns_map of save_returns.
ReturnEndpoints ==
    <<"/investimentos/Rentabilidades/mensais", "/investimentos/Rentabilidades/anuais">>

EntityEndpoints == {EntityEndpoint(e.TIPO) : e \in EntityRows}

\* save_entities: the rows in the order of ('_ord', 'NOME'), one POST each.
EntityPosts(rows) ==
    LET sorted == SortedBy(rows, [e \in rows |-> <<EntityOrder(e.TIPO),
                                                   IF e.NOME = "G1" THEN 1 ELSE 2>>])
    IN  [k \in DOMAIN sorted |->
            [endpoint |-> EntityEndpoint(sorted[k].TIPO), key |-> sorted[k].NOME]]

\* save_returns: for each row one POST to the monthly and one to the annual
\* endpoint.
ReturnPosts(rows) ==
    LET sorted == SortedBy(rows, [r \in rows |-> <<IF r = "P1/2025/1" THEN 1 ELSE 2>>])
        posts == [r \in rows |-> <<[endpoint |-> ReturnEndpoints[1], key |-> r],
                                   [endpoint |-> ReturnEndpoints[2], key |-> r]>>]
    IN  FlatMap(sorted, posts)

\* reconcile_returns: (exception raised, value handed back to main).  The
\* worker pool is handed aux_loader.load_mecsac_file; when the reconciliation
\* does run, the function ends without a return statement.
reconcile_returns(missing_in_maestro) ==
    IF LoadMecsacRaises
    THEN [raised |-> "AttributeError", value |-> PyNone]
    ELSE [raised |-> "none", value |-> PyNone]

\* `not missing_returns_maestro` in save_returns: None is falsy, the truth
\* value of a data frame is ambiguous (ValueError).
NotFrameRaises(frame) == ~frame.none

InitSession ==
    /\ funds = {}
    /\ portfolios = {}
    /\ governance = {}
    /\ port_submassa = {}
    /\ mec_sac = {}
    /\ tree = <<>>
    /\ tree_sub = <<>>
    /\ deep = 0
    /\ pc = "menu"
    /\ error = "none"
    /\ plan_returns_adjust = <<>>
    /\ outputs = <<>>
    /\ pool = NoPool
    /\ harm = NoCall
    /\ check = NoCheck
    /\ run = NoRun
    /\ \E lacking \in SUBSET ReturnRows :
          session = [options |-> 0,
                     missing_entities_maestro |-> PyNone,
                     entities_sent_maestro |-> FALSE,
                     missing_returns_maestro |-> PyNone,
                     posts |-> <<>>,
                     unsent |-> {},
                     last |-> [option |-> "", outcome |-> ""],
                     returns_missing_in_maestro |-> lacking]
    /\ selection = NoSelection

AtMenu == pc = "menu" /\ session.options < MaxOptions

\* Option 1: reconcile_entities reads dCadPlanoSAC and the Maestro registry
\* anew and hands back the entities it found missing.
Option1 ==
    /\ AtMenu
    /\ \E missing \in SUBSET EntityRows :
          session' = [session EXCEPT !.options = @ + 1,
                                     !.missing_entities_maestro = Frame(missing),
                                     !.unsent = missing,
                                     !.last = [option |-> "1", outcome |-> "ran"]]
    /\ UNCHANGED <<inputs, selection, run, check, harm, pool, outputs, plan_returns_adjust, tree,
                   tree_sub, deep, pc, error>>

\* Option 2: save_entities.  None: refused, False; no rows: True; else one
\* POST per row in order, and an exception of a row (unresolved foreign key,
\* failed request) leaves main.
Option2 ==
    /\ AtMenu
    /\ IF session.missing_entities_maestro.none
       THEN /\ session' = [session EXCEPT !.options = @ + 1,
                                          !.entities_sent_maestro = FALSE,
                                          !.last = [option |-> "2", outcome |-> "refused"]]
            /\ UNCHANGED <<pc, error>>
       ELSE LET posts == EntityPosts(session.missing_entities_maestro.rows)
            IN  \E n \in 0..Len(posts) :
                   /\ session' =
                         [session EXCEPT
                             !.options = @ + 1,
                             !.posts = @ \o SubSeq(posts, 1, n),
                             !.unsent = {e \in @ : \A k \in 1..n : posts[k].key # e.NOME},
                             !.entities_sent_maestro = IF n = Len(posts) THEN TRUE ELSE @,
                             !.last = [option |-> "2",
                                       outcome |-> IF n = Len(posts) THEN "ran"
                                                   ELSE "raised"]]
                   /\ IF n = Len(posts)
                      THEN UNCHANGED <<pc, error>>
                      ELSE pc' = "failed" /\ error' = "Exception"
    /\ UNCHANGED <<inputs, selection, run, check, harm, pool, outputs, plan_returns_adjust, tree,
                   tree_sub, deep>>

\* Option 3: refused when entities were reconciled and entities_sent_maestro
\* is False; else reconcile_returns, whose value becomes
\* missing_returns_maestro.
Option3 ==
    /\ AtMenu
    /\ IF ~session.missing_entities_maestro.none /\ ~session.entities_sent_maestro
       THEN /\ session' = [session EXCEPT !.options = @ + 1,
                                          !.last = [option |-> "3", outcome |-> "refused"]]
            /\ UNCHANGED <<pc, error>>
       ELSE LET got == reconcile_returns(session.returns_missing_in_maestro)
            IN  IF got.raised # "none"
                THEN /\ session' = [session EXCEPT
                                       !.options = @ + 1,
                                       !.last = [option |-> "3", outcome |-> "raised"]]
                     /\ pc' = "failed"
                     /\ error' = got.raised
                ELSE /\ session' = [session EXCEPT
                                       !.options = @ + 1,
                                       !.missing_returns_maestro = got.value,
                                       !.last = [option |-> "3", outcome |-> "ran"]]
                     /\ UNCHANGED <<pc, error>>
    /\ UNCHANGED <<inputs, selection, run, check, harm, pool, outputs, plan_returns_adjust, tree,
                   tree_sub, deep>>

\* Option 4: save_returns.
Option4 ==
    /\ AtMenu
    /\ IF NotFrameRaises(session.missing_returns_maestro)
       THEN /\ session' = [session EXCEPT !.options = @ + 1,
                                          !.last = [option |-> "4", outcome |-> "raised"]]
            /\ pc' = "failed"
            /\ error' = "ValueError"
       ELSE /\ session' = [session EXCEPT !.options = @ + 1,
                                          !.last = [option |-> "4", outcome |-> "refused"]]
            /\ UNCHANGED <<pc, error>>
    /\ UNCHANGED <<inputs, selection, run, check, harm, pool, outputs, plan_returns_adjust, tree,
                   tree_sub, deep>>

\* Option 0: exit().
Option0 ==
    /\ AtMenu
    /\ session' = [session EXCEPT !.options = @ + 1,
                                  !.last = [option |-> "0", outcome |-> "ran"]]
    /\ pc' = "exit"
    /\ UNCHANGED <<inputs, selection, run, check, harm, pool, outputs, plan_returns_adjust, tree,
                   tree_sub, deep, error>>

\* Any other input: the menu is shown again.
InvalidOption ==
    /\ AtMenu
    /\ session' = [session EXCEPT !.options = @ + 1,
                                  !.last = [option |-> "?", outcome |-> "invalid"]]
    /\ UNCHANGED <<inputs, selection, run, check, harm, pool, outputs, plan_returns_adjust, tree,
                   tree_sub, deep, pc, error>>

NextSession ==
    \/ Option1
    \/ Option2
    \/ Option3
    \/ Option4
    \/ Option0
    \/ InvalidOption

SpecSession == InitSession /\ [][NextSession]_vars

\* ---------------------- select_latest_xml_by_cnpj_and_date (SpecSelect)
\* A file name as the regular expression sees it: a sequence of tokens, each
\* an underscore, a maximal run of digits, or a piece without digits and
\* underscores.
DateRuns == {"20240101", "20240102"}

LongRuns == {"123456789"}

FileNames ==
    {<<"FD1", "_", "20240101", ".xml">>,
     <<"FD1", "_", "20240101", "_", "20240102", ".xml">>,
     <<"FD1", "_", "20240102", ".xml">>,
     <<"FD1", "_", "123456789", ".xml">>,
     <<"FD1", "_", "123456789", "_", "20240101", ".xml">>,
     <<"_", "20240101", ".xml">>,
     <<"FD1", ".xml">>}

\* Paths of the files found, in the order of os.walk.
XmlPaths == 1..NumFiles

\* file_date_pattern = ^.+?_\d{8}(?!\d): the positions where a match can end,
\* an underscore that is not the first character followed by a run of exactly
\* eight digits.
DateEnds(filename) ==
    {k \in 3..Len(filename) : filename[k - 1] = "_" /\ filename[k] \in DateRuns}

\* key.group(0) if key else meta['filename']: the shortest match, or the
\* whole name.
FileKey(filename) ==
    IF DateEnds(filename) = {} THEN filename
    ELSE SubSeq(filename, 1, CHOOSE k \in DateEnds(filename) :
                                 \A j \in DateEnds(filename) : k <= j)

\* grouped[key]: the (path, mtime) pairs of a key, in the order of files_info.
Grouped(files_info, key) ==
    SelectSeq([p \in XmlPaths |-> <<p, files_info[p].mtime>>],
              LAMBDA x : FileKey(files_info[x[1]].filename) = key)

\* Mutant of SortByMtime: the group is sorted oldest first.
SortByMtime_Ascending(group) ==
    LET idx == SortedBy(DOMAIN group, [k \in DOMAIN group |-> <<group[k][2], k>>])
    IN  [k \in DOMAIN idx |-> group[idx[k]]]

\* group.sort(key=lambda x: x[1], reverse=True): newest first, pairs of equal
\* mtime in their order of arrival.
SortByMtime(group) ==
    LET idx == SortedBy(DOMAIN group, [k \in DOMAIN group |-> <<0 - group[k][2], k>>])
    IN  [k \in DOMAIN idx |-> group[idx[k]]]

\* The keys in the order of their first file (dict insertion order).
RECURSIVE KeysInOrder(_, _, _)
KeysInOrder(files_info, p, seen) ==
    IF p > NumFiles THEN <<>>
    ELSE LET key == FileKey(files_info[p].filename)
         IN  IF key \in seen THEN KeysInOrder(files_info, p + 1, seen)
             ELSE <<key>> \o KeysInOrder(files_info, p + 1, seen \cup {key})

\* select_latest_xml_by_cnpj_and_date(files_info): (latest_files,
\* discarded_files).
select_latest_xml_by_cnpj_and_date(files_info) ==
    LET keys == KeysInOrder(files_info, 1, {})
        sorted == [k \in DOMAIN keys |-> SortByMtime(Grouped(files_info, keys[k]))]
        rest == [k \in DOMAIN keys |->
                    [j \in 1..(Len(sorted[k]) - 1) |-> sorted[k][j + 1][1]]]
    IN  [latest_files |-> [k \in DOMAIN keys |-> sorted[k][1][1]],
         discarded_files |-> FlatMap(keys, [key \in Range(keys) |->
                                 rest[CHOOSE k \in DOMAIN keys : keys[k] = key]])]

InitSelect ==
    /\ funds = {}
    /\ portfolios = {}
    /\ governance = {}
    /\ port_submassa = {}
    /\ mec_sac = {}
    /\ tree = <<>>
    /\ tree_sub = <<>>
    /\ deep = 0
    /\ pc = "find_xml_files"
    /\ error = "none"
    /\ plan_returns_adjust = <<>>
    /\ outputs = <<>>
    /\ pool = NoPool
    /\ harm = NoCall
    /\ check = NoCheck
    /\ run = NoRun
    /\ session = NoSession
    /\ \E files_info \in [XmlPaths -> [filename : FileNames, mtime : {1, 2}]] :
          selection = [done |-> FALSE, files_info |-> files_info,
                       latest_files |-> <<>>, discarded_files |-> <<>>]

\* parse_files, 'find_xml_files': the latest file of each key is kept, the
\* older ones are listed as discarded.
SelectLatestXml ==
    /\ pc = "find_xml_files"
    /\ LET got == select_latest_xml_by_cnpj_and_date(selection.files_info)
       IN  selection' = [selection EXCEPT !.done = TRUE,
                                          !.latest_files = got.latest_files,
                                          !.discarded_files = got.discarded_files]
    /\ pc' = "parse_xml_content"
    /\ UNCHANGED <<inputs, session, run, check, harm, pool, outputs, plan_returns_adjust,
                   tree, tree_sub, deep, error>>

NextSelect == SelectLatestXml

SpecSelect == InitSelect /\ [][NextSelect]_vars

\* ---------------------------------------------------------------- claims
FundGraphIsCyclic == HasCycle(Edges(funds))

\* Distinct funds of the fund table: the ids that own rows in it.
DistinctFunds == {r.cnpj : r \in funds}

\* C1: when the fund table contains a cycle of fund-holds-fund references,
\* validate_fund_graph_is_acyclic raises ValueError and the run never executes
\* a tree-expansion step.
C1_CycleRaisesBeforeExpansion ==
    (FundGraphIsCyclic /\ pc # "validate") =>
        (pc = "failed" /\ error = "ValueError" /\ deep = 0 /\ tree = <<>>)

\* C2 as stated: on an acyclic fund table build_tree_horizontal terminates and
\* performs at most (number of distinct funds of the fund table) joins.
C2_JoinsAtMostFundCount ==
    ~FundGraphIsCyclic =>
        (error # "RecursionError" /\ deep <= Cardinality(DistinctFunds))

\* C2 amended: on an acyclic fund table build_tree_horizontal terminates (it
\* never runs into the recursion limit) and performs at most one join more
\* than the number of distinct funds of the fund table; the extra join is the
\* one on references that resolve to no fund-table row.
C2_JoinsAtMostFundCountPlusOne ==
    ~FundGraphIsCyclic =>
        /\ error # "RecursionError"
        /\ deep <= Cardinality(DistinctFunds) + 1
        /\ (pc = "build_tree" => (NoFundReference(tree, deep) \/ deep < RecursionLimit))

\* C2 witness: an acyclic table on which expansion has returned after exactly
\* (distinct funds + 1) joins, at least two of them.
C2_Witness ==
    /\ ~FundGraphIsCyclic
    /\ pc = "tree_built"
    /\ deep = Cardinality(DistinctFunds) + 1
    /\ deep >= 2

\* Hop j of row r is resolved: its level-(j-1) reference is a fund that has, on
\* the row's date, the fund-table row recorded as the row's level j.
HopResolved(r, j) ==
    /\ r.lv[j].cnpjfundo # Null
    /\ \E f \in funds : /\ f.cnpj = r.lv[j].cnpjfundo
                         /\ f.dtposicao = r.dtposicao
                         /\ LevelOf(f) = r.lv[j + 1]

HopsResolved(r) ==
    Max({n \in 0..(Len(r.lv) - 1) : \A j \in 1..n : HopResolved(r, j)})

\* C3: every row's nivel is the number of fund hops resolved for it by
\* successive joins on (fund id, date); a row whose top-level fund reference is
\* null is a leaf of nivel 0.
C3_NivelIsHopsResolved ==
    pc \in {"build_tree", "tree_built"} =>
        \A k \in DOMAIN tree :
            /\ tree[k].nivel = HopsResolved(tree[k])
            /\ (tree[k].lv[1].cnpjfundo = Null => tree[k].nivel = 0)

\* C3 witness: a built tree with a row resolved over two hops next to a row
\* without fund reference, left at nivel 0.
C3_Witness ==
    /\ pc = "tree_built"
    /\ \E k \in DOMAIN tree : tree[k].nivel = 2
    /\ \E k \in DOMAIN tree : tree[k].lv[1].cnpjfundo = Null /\ tree[k].nivel = 0

\* The levels 0..max_depth of row r whose fund id is in the governance set.
GovernedLevels(r) ==
    {i \in 0..MaxNivel(tree) : r.lv[i + 1].cnpjfundo \in governance}

KeysResolved == pc \in {"fill_missing", "keys_assigned"}

Combination(k) ==
    {j \in DOMAIN tree : /\ tree[j].codcart = tree[k].codcart
                         /\ tree[j].dtposicao = tree[k].dtposicao
                         /\ tree[j].cnpb = tree[k].cnpb
                         /\ tree[j].contribution_match = tree[k].contribution_match}

\* Row j carries the contribution of the key v.
IsCarrier(j, v) ==
    /\ tree[j].KEY_ESTRUTURA_GERENCIAL = v
    /\ ~IsZero(tree[j].contribution_valor_calc)

\* C5: after governance-key resolution, every (portfolio, date, plan, matched
\* vehicle) combination that at least one row matched has exactly one
\* contribution carrier (non-zero contribution, key naming the vehicle), and
\* every other row of the combination has zero contribution.
C5_OneCarrierPerCombination ==
    pc = "keys_assigned" =>
        \A k \in DOMAIN tree :
            tree[k].contribution_match \in Funds =>
                \E c \in Combination(k) :
                    /\ IsCarrier(c, tree[k].contribution_match)
                    /\ \A j \in Combination(k) \ {c} :
                           IsZero(tree[j].contribution_valor_calc)

\* C6: after assign_governance_struct_keys every row of the tree has a
\* non-null KEY_ESTRUTURA_GERENCIAL: a governance vehicle id, the portfolio's
\* own id, or '#OUTROS'.
C6_EveryRowHasKey ==
    pc = "keys_assigned" =>
        \A k \in DOMAIN tree :
            /\ tree[k].KEY_ESTRUTURA_GERENCIAL # Null
            /\ tree[k].KEY_ESTRUTURA_GERENCIAL
                   \in governance \cup {tree[k].codcart, Outros}

\* Row r is a carrier of its own, keyed v.
DirectCarrier(r, v) ==
    /\ r.KEY_ESTRUTURA_GERENCIAL = v
    /\ r.contribution_match = v
    /\ r.contribution_valor_calc = r.valor_calc_proporcional
    /\ ~IsZero(r.contribution_valor_calc)

\* C7 as stated: a row that matched no governance vehicle at any level is its
\* own direct carrier keyed by codcart whenever codcart is in the governance
\* set, and gets '#OUTROS' (as a carrier) only when codcart is not in the set.
C7_UnmatchedKeyedByCodcart ==
    pc = "keys_assigned" =>
        \A k \in DOMAIN tree :
            GovernedLevels(tree[k]) = {} =>
                DirectCarrier(tree[k], IF tree[k].codcart \in governance
                                       THEN tree[k].codcart ELSE Outros)

\* C7 amended: a row that matched no governance vehicle at any level is always
\* a carrier; it is keyed by codcart only when its top-level fund reference is
\* null or empty and codcart is in the governance set; when the top-level fund
\* reference is present, or codcart is not in the set, its key is '#OUTROS'.
C7_UnmatchedKeyedByCodcartOnlyWithoutFund ==
    pc = "keys_assigned" =>
        \A k \in DOMAIN tree :
            GovernedLevels(tree[k]) = {} =>
                DirectCarrier(tree[k],
                    IF /\ tree[k].lv[1].cnpjfundo \in {Null, Empty}
                       /\ tree[k].codcart \in governance
                    THEN tree[k].codcart ELSE Outros)

\* C7 witness: the portfolio id is in the governance set; one never-matched row
\* without fund reference is keyed by it, another never-matched row with a fund
\* reference is keyed '#OUTROS'.
C7_Witness ==
    /\ pc = "keys_assigned"
    /\ \E k, j \in DOMAIN tree :
           /\ GovernedLevels(tree[k]) = {} /\ GovernedLevels(tree[j]) = {}
           /\ tree[k].codcart \in governance /\ tree[j].codcart \in governance
           /\ tree[k].lv[1].cnpjfundo = Null
           /\ DirectCarrier(tree[k], tree[k].codcart)
           /\ tree[j].lv[1].cnpjfundo \in Funds
           /\ DirectCarrier(tree[j], Outros)

\* The rows build_horizontal_tree hands to the splitter.
SplitterInput ==
    SelectSeq(build_tree_horizontal(build_tree(portfolios), funds, 0),
              LAMBDA r : SubmassaMask(r, port_submassa))

\* The rows the splitter emitted for the input row r.
EmittedFor(r) ==
    SelectSeq(tree_sub, LAMBDA o : /\ o.codcart = r.codcart /\ o.cnpb = r.cnpb
                                   /\ o.dtposicao = r.dtposicao
                                   /\ o.nivel = r.nivel /\ o.lv = r.lv)

\* The mapping entries that match row r on (date, plan, instrument of level i).
EntriesAt(r, i) ==
    {x \in port_submassa : /\ x.dtposicao = r.dtposicao /\ x.CNPB = r.cnpb
                            /\ x.isin # Null /\ x.isin = r.lv[i + 1].isin}

MatchingLevels(r) == {i \in 0..(Len(r.lv) - 1) : EntriesAt(r, i) # {}}

\* Output row o carries the sub-group and proration factor of entry x.
Carries(o, x) ==
    /\ o.CODCART = x.CODCART
    /\ o.COD_SUBMASSA = x.COD_SUBMASSA
    /\ o.SUBMASSA = x.SUBMASSA
    /\ SameValue(o.pct_submassa_isin_cnpb, PctSubmassa(port_submassa, x))

\* The rows emitted for r are one per entry of E, each carrying its entry.
OneRowPerEntry(r, E) ==
    LET outs == EmittedFor(r)
    IN  /\ Len(outs) = Cardinality(E)
        /\ \A x \in E : Cardinality({k \in DOMAIN outs : Carries(outs[k], x)}) = 1

\* C8: the splitter emits, for each input row, one output row per mapping entry
\* matching the row's (date, plan, instrument), each carrying that entry's
\* factor, and exactly one default row (1.0, '1', 'BSPS') when no entry matches.
\* "The row's instrument" is read in the claim's favour: the instrument of any
\* one level of the row, or of all its levels together.
C8_OneRowPerMatchingEntry ==
    pc = "concat" =>
        \A n \in DOMAIN SplitterInput :
            LET r == SplitterInput[n]
                outs == EmittedFor(r)
            IN  IF MatchingLevels(r) = {}
                THEN /\ Len(outs) = 1
                     /\ SameValue(outs[1].pct_submassa_isin_cnpb, One)
                     /\ outs[1].COD_SUBMASSA = "1"
                     /\ outs[1].SUBMASSA = "BSPS"
                ELSE \/ \E i \in MatchingLevels(r) : OneRowPerEntry(r, EntriesAt(r, i))
                     \/ OneRowPerEntry(r, UNION {EntriesAt(r, i) : i \in MatchingLevels(r)})

\* C9: for each tree row the shallowest level whose instrument matches the
\* mapping determines the sub-group and factor of the rows emitted for it; no
\* deeper level is applied afterwards.
C9_ShallowestLevelWins ==
    pc = "concat" =>
        \A n \in DOMAIN SplitterInput :
            LET r == SplitterInput[n]
                outs == EmittedFor(r)
            IN  MatchingLevels(r) # {} =>
                    LET first == CHOOSE i \in MatchingLevels(r) :
                                     \A j \in MatchingLevels(r) : i <= j
                    IN  \A k \in DOMAIN outs :
                            \E x \in EntriesAt(r, first) : Carries(outs[k], x)

RECURSIVE StakeProduct(_, _)
\* The product of the stakes of the levels L of row r, a missing stake
\* counting as 1.
StakeProduct(r, L) ==
    IF L = {} THEN One
    ELSE LET i == CHOOSE x \in L : TRUE
             st == r.lv[i + 1].equity_stake
         IN  Mul(IF IsNaN(st) THEN One ELSE st, StakeProduct(r, L \ {i}))

\* C10: for every tree row equity_stake_leaf equals the product of the
\* per-level stakes of levels 0..max depth, a missing stake counting as 1;
\* stakes 0.5 and 0.4 over two levels give 0.20.
C10_LeafStakeIsProduct ==
    pc \in {"proportional_value", "total_invest"} =>
        \A k \in DOMAIN tree :
            /\ ~IsNaN(tree[k].equity_stake_leaf)
            /\ SameValue(tree[k].equity_stake_leaf,
                         StakeProduct(tree[k], 0..MaxNivel(tree)))
            /\ (/\ MaxNivel(tree) = 1
                /\ tree[k].lv[1].equity_stake = <<1, 2>>
                /\ tree[k].lv[2].equity_stake = <<2, 5>>)
                   => SameValue(tree[k].equity_stake_leaf, <<1, 5>>)

\* C10 witness: a two-level row with stakes 0.5 and 0.4 and accumulated stake
\* 0.20, next to a row whose missing deeper stake counted as 1.
C10_Witness ==
    /\ pc = "proportional_value"
    /\ MaxNivel(tree) = 1
    /\ \E k \in DOMAIN tree :
           /\ tree[k].lv[1].equity_stake = <<1, 2>>
           /\ tree[k].lv[2].equity_stake = <<2, 5>>
           /\ SameValue(tree[k].equity_stake_leaf, <<1, 5>>)
    /\ \E k \in DOMAIN tree :
           /\ tree[k].lv[1].equity_stake = <<1, 2>>
           /\ IsNaN(tree[k].lv[2].equity_stake)
           /\ SameValue(tree[k].equity_stake_leaf, <<1, 2>>)

CompositionGroup(k) ==
    SelectSeq(tree, LAMBDA x : /\ x.cnpb = tree[k].cnpb
                               /\ x.CODCART = tree[k].CODCART
                               /\ x.dtposicao = tree[k].dtposicao)

\* C12: after enrich_values, in every (plan, sub-group, date) group with
\* non-zero total invested the compositions of the rows sum to 1.
C12_CompositionSumsToOne ==
    pc \in {"failed", "weighted_returns"} =>
        /\ error = "none"
        /\ \A k \in DOMAIN tree :
               LET grp == CompositionGroup(k)
                   total == SumValues([j \in DOMAIN grp |-> grp[j].valor_calc_proporcional])
               IN  ~IsZero(total) =>
                       SameValue(SumValues([j \in DOMAIN grp |-> grp[j].composicao]), One)

\* The (plan, date) groups of the tree.
PlanDates == {<<r.cnpb, r.dtposicao>> : r \in Range(tree)}

\* Row a of plan_returns_adjust holds the two returns of its (plan, date),
\* their difference and their quotient.
DeltaAndFactor(a) ==
    /\ a.contribution_rentab_ponderada = TreeReturn(tree, a.cnpb, a.dtposicao)
    /\ a.RENTAB_DIA_PONDERADA_MEC_SAC = MecSacReturn(mec_sac, a.cnpb, a.dtposicao)
    /\ a.contribution_ajuste_rentab =
           Round(Add(a.RENTAB_DIA_PONDERADA_MEC_SAC,
                     Neg(a.contribution_rentab_ponderada)))
    /\ a.contribution_ajuste_rentab_fator =
           Round(Div(a.RENTAB_DIA_PONDERADA_MEC_SAC, a.contribution_rentab_ponderada))

\* The tree return of row a multiplied by its factor.
RoundTrip(a) ==
    FloatMul(a.contribution_rentab_ponderada, a.contribution_ajuste_rentab_fator)

\* p is a within four unit round-offs (relative 2 * 10^(1 - Digits)) of a.
WithinRounding(p, a) ==
    IF IsNaN(p) \/ IsNaN(a) THEN IsNaN(p) /\ IsNaN(a)
    ELSE LET x == Reduced(p)
             y == Reduced(a)
         IN  Abs(x[1] * y[2] - y[1] * x[2]) * Pow10(Digits - 1) <= 2 * Abs(y[1]) * x[2]

\* C13 as stated: for every (plan, date) with non-zero tree return the result
\* holds delta = authoritative - tree and factor = authoritative / tree, and
\* the tree return times the factor is the authoritative return.
C13_RoundTripExact ==
    pc = "adjustment_computed" =>
        /\ {<<a.cnpb, a.dtposicao>> : a \in Range(plan_returns_adjust)} = PlanDates
        /\ \A k \in DOMAIN plan_returns_adjust :
               LET a == plan_returns_adjust[k]
               IN  ~IsZero(a.contribution_rentab_ponderada) =>
                       /\ DeltaAndFactor(a)
                       /\ SameValue(RoundTrip(a), a.RENTAB_DIA_PONDERADA_MEC_SAC)

\* C13 amended: delta and factor as stated (each the rounded result of the
\* float operation); the tree return times the factor is the authoritative
\* return up to floating-point rounding, not always exactly.
C13_RoundTripWithinRounding ==
    pc = "adjustment_computed" =>
        /\ {<<a.cnpb, a.dtposicao>> : a \in Range(plan_returns_adjust)} = PlanDates
        /\ Len(plan_returns_adjust) = Cardinality(PlanDates)
        /\ \A k \in DOMAIN plan_returns_adjust :
               LET a == plan_returns_adjust[k]
               IN  ~IsZero(a.contribution_rentab_ponderada) =>
                       /\ DeltaAndFactor(a)
                       /\ WithinRounding(RoundTrip(a), a.RENTAB_DIA_PONDERADA_MEC_SAC)

\* C13 witness: tree return 12 and authoritative return 12.5 give delta 0.5
\* and factor 1.04, and the round trip is exact; on another date tree return 3
\* and authoritative return 1 give a factor whose round trip is not exact.
C13_Witness ==
    /\ pc = "adjustment_computed"
    /\ \E k \in DOMAIN plan_returns_adjust :
           LET a == plan_returns_adjust[k]
           IN  /\ a.contribution_rentab_ponderada = Num(12)
               /\ a.RENTAB_DIA_PONDERADA_MEC_SAC = <<25, 2>>
               /\ a.contribution_ajuste_rentab = <<1, 2>>
               /\ a.contribution_ajuste_rentab_fator = <<26, 25>>
               /\ RoundTrip(a) = <<25, 2>>
    /\ \E k \in DOMAIN plan_returns_adjust :
           LET a == plan_returns_adjust[k]
           IN  /\ a.contribution_rentab_ponderada = Num(3)
               /\ a.RENTAB_DIA_PONDERADA_MEC_SAC = Num(1)
               /\ ~SameValue(RoundTrip(a), Num(1))

\* Rows of the tree that carry the adjuster's marker for plan-date k.
AdjustRows(k) ==
    {i \in DOMAIN tree : /\ <<tree[i].cnpb, tree[i].dtposicao>> = k
                         /\ "KEY_ESTRUTURA_GERENCIAL" \in DOMAIN tree[i]
                         /\ tree[i].KEY_ESTRUTURA_GERENCIAL = "#AJUSTE"}

\* C14: once the adjuster stage is over, every (plan, date) of the tree has
\* exactly one '#AJUSTE' row and its contributions sum to the authoritative
\* plan return.
C14_OneAdjustRowPerPlanDate ==
    pc # "compute_plan_returns_adjust" =>
        \A k \in PlanDates :
            /\ Cardinality(AdjustRows(k)) = 1
            /\ SameValue(TreeReturn(tree, k[1], k[2]),
                         MecSacReturn(mec_sac, k[1], k[2]))

\* Frontier row r of depth d refers to a fund that has no fund-table row for
\* the date of r.
Dangling(r, d) ==
    /\ LeftCol(r, d) # Null
    /\ ~\E f \in funds : f.cnpj = LeftCol(r, d) /\ f.dtposicao = r.dtposicao

\* Row r met a dangling reference at an earlier depth.
WasDangling(r) ==
    \E e \in 1..(Len(r.lv) - 1) :
        r.lv[e].cnpjfundo # Null /\ r.lv[e + 1] = NullLevel

\* The rows of rows that stem from r: same portfolio, plan and date, and the
\* column groups of r as a prefix.
Descendants(rows, r) ==
    {j \in DOMAIN rows : /\ rows[j].codcart = r.codcart
                         /\ rows[j].cnpb = r.cnpb
                         /\ rows[j].dtposicao = r.dtposicao
                         /\ Len(rows[j].lv) >= Len(r.lv)
                         /\ SubSeq(rows[j].lv, 1, Len(r.lv)) = r.lv}

\* C15: a frontier row with a dangling fund reference stays in the tree
\* exactly once at every iteration, from the one that meets it onwards, with
\* its level and resolved values unchanged (the new column group is all NaN);
\* and an error only arises while some frontier row does match a fund.
C15_DanglingRowKept ==
    [][/\ deep' = deep + 1 =>
            \A k \in DOMAIN tree :
                (Dangling(tree[k], deep) \/ WasDangling(tree[k])) =>
                    /\ Cardinality(Descendants(tree', tree[k])) = 1
                    /\ \A j \in Descendants(tree', tree[k]) :
                          /\ tree'[j] = [tree[k] EXCEPT !.lv = Append(@, NullLevel)]
                          /\ LeftCol(tree'[j], deep') = Null
       /\ (pc = "build_tree" /\ error' # "none") =>
            \E k \in DOMAIN tree :
                LeftCol(tree[k], deep) # Null /\ ~Dangling(tree[k], deep)
      ]_vars

\* The expansion returned after two merges; a row that met a dangling
\* reference at depth 0 went through the second merge and is in the result.
C15_Witness ==
    /\ pc = "tree_built"
    /\ error = "none"
    /\ deep = 2
    /\ \E k \in DOMAIN tree :
          /\ tree[k].lv[1].cnpjfundo # Null
          /\ tree[k].lv[2] = NullLevel
          /\ tree[k].lv[3] = NullLevel
          /\ tree[k].nivel = 0

\* The stage a position of the run belongs to.
StageOf(p) ==
    CASE p = "validate_fund_graph_is_acyclic" -> "Validator"
      [] p = "build_horizontal_tree" -> "Expander"
      [] p \in {"explode", "concat"} -> "Splitter"
      [] p \in {"tree_ready", "proportional_value", "total_invest",
                "weighted_returns"} -> "Accumulator"
      [] OTHER -> "none"

\* Position of stage s in the sequence order.
Rank(order, s) == CHOOSE i \in DOMAIN order : order[i] = s

\* A step of the run stays in its stage, ends the run, or starts the stage
\* that follows its stage in order.
StepInOrder(order) ==
    \/ StageOf(pc') = "none"
    \/ /\ StageOf(pc) # "none"
       /\ Rank(order, StageOf(pc')) - Rank(order, StageOf(pc)) \in {0, 1}

Counted ==
    {f \in XmlFiles : pool.results[f] # <<>>}
        \cup {pool.task[w] : w \in {v \in Workers : pool.at[v] = "parse"}}

RECURSIVE SumCells(_)
\* Sum of the COUNT_PARSE cells of the set C.
SumCells(C) ==
    IF C = {} THEN 0
    ELSE LET c == CHOOSE x \in C : TRUE IN pool.count[c] + SumCells(C \ {c})

\* C18 as stated: no memory cell is written by two processes.
C18_NoSharedMutableState ==
    pool.start # "none" =>
        \A c \in DOMAIN pool.writers : Cardinality(pool.writers[c]) <= 1

\* C18, amended: the only state two workers write is the counter COUNT_PARSE
\* of forked workers, and its lock keeps every increment; each result is the
\* parse of the worker's own file, whatever the interleaving; and the list
\* the orchestrator gets holds the results in task order.
C18_OnlyLockedCounterShared ==
    pool.start # "none" =>
        /\ \A c \in DOMAIN pool.writers :
              Cardinality(pool.writers[c]) > 1 => (c = 0 /\ pool.start = "fork")
        /\ SumCells(DOMAIN pool.count) = Cardinality(Counted)
        /\ \A f \in XmlFiles :
              pool.results[f] # <<>> => pool.results[f][1] = parse_files(pool.files[f])
        /\ pc = "convert_to_pandas" =>
              pool.parsed_content = [f \in XmlFiles |-> parse_files(pool.files[f]).data]

\* Two forked workers have both incremented the shared counter and the
\* orchestrator has the two results.
C18_Witness ==
    /\ pool.start = "fork"
    /\ pc = "convert_to_pandas"
    /\ Cardinality(pool.writers[0]) > 1
    /\ pool.count[0] = NumFiles

\* The columns the rules of the call require and the table lacks.
RequiredMissing ==
    UNION {{harm.rules[k].filters[i].column : i \in DOMAIN harm.rules[k].filters} :
              k \in DOMAIN harm.rules}
        \ harm.before.columns

\* C19: when harmonize_values is given a table that lacks a column its rules
\* require, it ends in an error that names the operation and every missing
\* column, and the table is as it was before the call.
C19_AbortsBeforeAnyChange ==
    (pc \in {"failed", "harmonized"} /\ RequiredMissing # {}) =>
        /\ error = "ValueError"
        /\ harm.raised # NotRaised
        /\ harm.raised.caller = "harmonize_values"
        /\ Range(harm.raised.missing) = RequiredMissing
        /\ harm.dtfr = harm.before

\* The tables given to the check hold a mismatch of the kind it looks for.
Mismatch ==
    CASE check.op = "check_values_integrity" ->
            \/ DivergentPuposicaoVlcota(check.rows, check.valor) # {}
            \/ DivergentPl(check.rows, check.valor_serie) # {}
      [] OTHER -> InconsistentGroups(check.rows) # {}

\* C20: a check that has met a mismatch has not raised, has written a report
\* of the discrepant rows, and the run goes on.
C20_MismatchReportedNotRaised ==
    (pc \in {"checked", "failed"} /\ Mismatch) =>
        /\ error = "none"
        /\ pc = "checked"
        /\ check.reports # {}

\* The calls of the stages that follow instruction i of the run.
LaterCalls(i) ==
    {RunPipelineCode[j] : j \in {k \in i..Len(RunPipelineCode) :
                                     RunPipelineCode[k].op = "call"}}

\* C21 (as stated): once a stage of run_pipeline has raised, none of the
\* final output files is written.
C21_RaiseLeavesNoOutputFile == run.exc # "none" => run.written = {}

\* C21: once a call of run_pipeline has raised, the exception stays raised
\* (each enclosing log_timing logs it and raises it again), nothing more is
\* executed and no file is written after it; a run that ends on the exception
\* has logged a failure in every block that was open, and unless the raise
\* came from save_final_files itself no final output file exists.
C21_RaiseAbortsRun ==
    [][/\ run.exc # "none" =>
            /\ run'.exc = run.exc
            /\ run'.executed = run.executed
            /\ run'.written = run.written
            /\ run'.at = run.at
            /\ pc' # "done"
       /\ (run.exc # "none" /\ run.raised_in # "save_final_files") => run.written = {}
       /\ pc' = "failed" =>
            /\ error' = "Exception"
            /\ \E i \in 1..Len(run'.log) :
                   run'.log[i] = [step |-> "all_process", status |-> "fail"]
            /\ run'.log[Len(run'.log)] = [step |-> "all_process", status |-> "fail"]
            /\ \A c \in LaterCalls(run'.at) :
                   \A i \in 1..Len(run'.executed) : run'.executed[i] # c]_vars

\* A stage in the middle of the run raised inside its log_timing block, the
\* failure was logged twice (the block, then the whole run) and the run ended.
C21_Witness ==
    /\ pc = "failed"
    /\ run.raised_in = "build_horizontal_tree"
    /\ Len(run.executed) > 10
    /\ run.log[Len(run.log) - 1] = [step |-> "build_tree", status |-> "fail"]
    /\ run.written = {}

\* The deepest level, from max depth down to 0, at which a column of a row
\* is not null; -1 when it is null at every level.
DeepestNonNull(levels, max_deep) ==
    LET present == {i \in 0..max_deep : TextNotNa(levels[i])}
    IN  IF present = {} THEN -1 ELSE Max(present)

\* The _FINAL column of base column c is in the row and holds the value of
\* the deepest non-null level, or null when every level is null.
FinalIsDeepest(row, c, max_deep) ==
    /\ c \in DOMAIN row.final
    /\ c \in DOMAIN row.col
    /\ LET d == DeepestNonNull(row.col[c], max_deep)
       IN  row.final[c] = IF d = -1 THEN "NaN" ELSE row.col[c][d]

\* C22: when enrich_text (or generate_final_columns) has ended, every base column it
\* names has its _FINAL column in every row, equal to the column's value at
\* the deepest level at which it is not null, null only if null at every
\* level.
C22_FinalIsDeepestNonNull ==
    /\ pc \in {"text_enriched", "failed"} =>
          \A r \in 1..Len(tree) : \A k \in 1..Len(final_cols_base) :
              FinalIsDeepest(tree[r], final_cols_base[k], MaxDeep(tree))
    /\ pc = "final_columns_generated" =>
          \A r \in 1..Len(tree) : \A k \in 1..Len(columns_to_generate) :
              FinalIsDeepest(tree[r], columns_to_generate[k], MaxDeep(tree))

\* The part of C22 that holds: every _FINAL column that was produced holds
\* the deepest non-null value.
C22_ProducedFinalsAreDeepest ==
    pc \in {"text_enriched", "final_columns_generated", "failed"} =>
        \A r \in 1..Len(tree) : \A c \in DOMAIN tree[r].final :
            FinalIsDeepest(tree[r], c, MaxDeep(tree))

\* The top-level cnpjfundo of a tree row is null or the empty string.
NoTopLevelFund(r) == r.lv[1].cnpjfundo = Null \/ r.lv[1].cnpjfundo = Empty

\* C23: when assign_estrutura_gerencial_key has returned (level scan and
\* '#OUTROS' fallback done), no row whose top-level cnpjfundo is null or
\* empty has a governance key or a contribution match.
C23_NoKeyWithoutTopLevelFund ==
    pc = "fill_missing" =>
        \A k \in 1..Len(tree) :
            NoTopLevelFund(tree[k]) =>
                /\ tree[k].KEY_ESTRUTURA_GERENCIAL = Null
                /\ tree[k].contribution_match = Null

\* The scan keyed one row, the fallback another, and a row without top-level
\* fund (empty string) and one with a null one were left without key.
C23_Witness ==
    /\ pc = "fill_missing"
    /\ governance # {}
    /\ \E k \in 1..Len(tree) : tree[k].KEY_ESTRUTURA_GERENCIAL = Outros
    /\ \E k \in 1..Len(tree) : tree[k].KEY_ESTRUTURA_GERENCIAL \in governance
    /\ \E k \in 1..Len(tree) :
          tree[k].lv[1].cnpjfundo = Empty /\ tree[k].KEY_ESTRUTURA_GERENCIAL = Null

\* valid_idx and dupl_idx are disjoint and cover the index of the frame.
C26_IndexIsSplit ==
    pc = "validated" =>
        /\ check.valid_idx \cap check.dupl_idx = {}
        /\ check.valid_idx \cup check.dupl_idx = DOMAIN check.data

\* C26: validate_unique_puposicao splits the row index into disjoint
\* valid_idx and dupl_idx that cover all rows, and valid_idx holds no two
\* rows of the same (isin, dtposicao) with different puposicao.
C26_ValidRowsDoNotConflict ==
    pc = "validated" =>
        /\ check.valid_idx \cap check.dupl_idx = {}
        /\ check.valid_idx \cup check.dupl_idx = DOMAIN check.data
        /\ \A a \in check.valid_idx, b \in check.valid_idx :
              (/\ check.data[a].isin = check.data[b].isin
               /\ check.data[a].dtposicao = check.data[b].dtposicao)
              => check.data[a].puposicao = check.data[b].puposicao

\* The sum of the proration factors of the rows emitted for input row r.
FactorSum(r) ==
    LET outs == EmittedFor(r)
    IN  SumValues([k \in DOMAIN outs |-> outs[k].pct_submassa_isin_cnpb])

\* C24: for every tree row passed to the splitter, the proration factors of
\* the rows emitted for it sum to 1 (so the prorated values sum to the row's
\* value), also when its instruments match the mapping at more than one level.
C24_FactorsSumToOne ==
    pc = "concat" =>
        \A n \in DOMAIN SplitterInput : SameValue(FactorSum(SplitterInput[n]), One)

\* The part of C24 that holds: the factors sum to 1 for the rows whose
\* instruments match the mapping at no level or at exactly one.
C24_FactorsSumToOneAtOneLevel ==
    pc = "concat" =>
        \A n \in DOMAIN SplitterInput :
            Cardinality(MatchingLevels(SplitterInput[n])) <= 1
                => SameValue(FactorSum(SplitterInput[n]), One)

\* The fund references of one date.
EdgesOn(d) == Edges({r \in funds : r.dtposicao = d})

\* The references pooled over all dates form a cycle, those of no single date
\* do: A holds B on one date, B holds A only on another.
CycleAcrossDatesOnly ==
    /\ HasCycle(Edges(funds))
    /\ \A d \in Dates : ~HasCycle(EdgesOn(d))

\* C25: a fund table whose references are cyclic only when pooled over the
\* dates is rejected by the validator (ValueError, no expansion step).
C25_CrossDateCycleRejected ==
    (CycleAcrossDatesOnly /\ pc # "validate") =>
        (pc = "failed" /\ error = "ValueError" /\ deep = 0 /\ tree = <<>>)

\* The part of C25 that holds: on such a table the expansion, which joins on
\* fund id and date, never runs into the recursion limit.
C25_CrossDateExpansionTerminates ==
    CycleAcrossDatesOnly => error # "RecursionError"

\* The POSTs made by the step, and the menu option the step entered.
NewPosts == SubSeq(session'.posts, Len(session.posts) + 1, Len(session'.posts))

Entered(option) == session'.options # session.options /\ session'.last.option = option

PostsEntity == \E k \in DOMAIN NewPosts : NewPosts[k].endpoint \in EntityEndpoints

PostsReturn == \E k \in DOMAIN NewPosts : NewPosts[k].endpoint \in Range(ReturnEndpoints)

\* C27: in a session of the menu, option 2 POSTs no entity unless option 1
\* reconciled earlier; option 3 is refused while entities reported missing by
\* option 1 have not been sent by option 2; option 4 POSTs no return unless
\* option 3 reconciled returns.
C27_MenuOrder ==
    [][/\ PostsEntity => (Entered("2") /\ ~session.missing_entities_maestro.none)
       /\ (Entered("3") /\ session.unsent # {}) => session'.last.outcome = "refused"
       /\ PostsReturn => (Entered("4") /\ ~session.missing_returns_maestro.none)]_vars

\* The parts of C27 that hold: entities are POSTed only by option 2 after a
\* reconciliation, returns only by option 4 after one; and option 3 is
\* refused while option 1 has run and entities_sent_maestro is False.
C27_PostsNeedReconciliation ==
    [][/\ PostsEntity => (Entered("2") /\ ~session.missing_entities_maestro.none)
       /\ PostsReturn => (Entered("4") /\ ~session.missing_returns_maestro.none)
       /\ (/\ Entered("3")
           /\ ~session.missing_entities_maestro.none
           /\ ~session.entities_sent_maestro) => session'.last.outcome = "refused"]_vars

\* C28: option 3, when it is not refused and Maestro lacks returns, finds
\* them and keeps them for option 4; option 4 then POSTs one monthly and one
\* annual return for each of them.
C28_MissingReturnsArePosted ==
    [][/\ (/\ Entered("3")
           /\ session'.last.outcome # "refused"
           /\ session.returns_missing_in_maestro # {})
          => /\ pc' = "menu"
             /\ session'.missing_returns_maestro = Frame(session.returns_missing_in_maestro)
       /\ (Entered("4") /\ ~session.missing_returns_maestro.none)
          => NewPosts = ReturnPosts(session.missing_returns_maestro.rows)]_vars

\* The files of the input whose name has the key of file p.
SameKey(p) ==
    {q \in XmlPaths : FileKey(selection.files_info[q].filename)
                          = FileKey(selection.files_info[p].filename)}

\* C29: select_latest_xml_by_cnpj_and_date partitions its input (every file
\* is in exactly one of latest_files and discarded_files, once), selects
\* exactly one file per key, and the file selected for a key has the
\* greatest modification time of the files of that key.
C29_LatestPerKey ==
    selection.done =>
        /\ Range(selection.latest_files) \cup Range(selection.discarded_files) = XmlPaths
        /\ Len(selection.latest_files) + Len(selection.discarded_files) = NumFiles
        /\ \A p \in XmlPaths :
              Cardinality(SameKey(p) \cap Range(selection.latest_files)) = 1
        /\ \A p \in Range(selection.latest_files) : \A q \in SameKey(p) :
              selection.files_info[q].mtime <= selection.files_info[p].mtime

\* Two files of different names share the key FD1_20240101; the newer one,
\* second in the input, was selected and the older one discarded.
C29_Witness ==
    /\ selection.done
    /\ selection.discarded_files # <<>>
    /\ \E p \in Range(selection.latest_files), q \in Range(selection.discarded_files) :
          /\ q < p
          /\ selection.files_info[p].filename # selection.files_info[q].filename
          /\ selection.files_info[q].mtime < selection.files_info[p].mtime

====
